---- MODULE Spec2Model ----
(***************************************************************************)
(* ecpprog: JTAG TAP navigation, shift transport, SPI-over-JTAG bridge and *)
(* the SPI flash erase / program / verify pipeline.                        *)
(*                                                                         *)
(* The program is single threaded.  Its run is modelled as a main-level    *)
(* position (pc) plus a list of pending JTAG primitive calls (todo): a     *)
(* main-level step calls a routine of ecpprog.c, which pushes the          *)
(* jtag_go_to_state / jtag_tap_shift / jtag_wait_time calls that routine   *)
(* makes; the primitives then run one transport transfer at a time.        *)
(***************************************************************************)
EXTENDS Integers, Sequences, FiniteSets, TLC

VARIABLES
    cfg,            \* command line options, input file length, attached device
    pc,             \* position in main()
    todo,           \* pending primitive calls of the routine being executed
    current_state,  \* jtag_tap.c: static uint8_t current_state (the mirror)
    hw_state,       \* TAP controller state of the attached device
    tms_line,       \* level the TMS pin was left at by the last TMS command
    go_active,      \* a jtag_go_to_state call is in progress
    go_from,        \* mirror state when the current/last jtag_go_to_state call began
    go_target,      \* argument of the current/last jtag_go_to_state call
    go_acks,        \* arguments of the jtag_state_ack calls made by that call
    go_tms,         \* TMS bits that call clocked out
    go_xfers,       \* number of mpsse_xfer calls made by that call
    shift_log,      \* the last jtag_tap_shift call: arguments, states, buffer use
    last_call,      \* the primitive call that returned last, with the routine that made it
    hw_ir,          \* device: instruction register (shift stage and latched value)
    spi_cs,         \* device: bits and leading bytes of the open chip-select assertion
    spi_last,       \* flash: opcode of the last SPI transaction and the write-enable state it met
    we_armed,       \* flash: a write enable was received and only status reads since
    erase_log,      \* flash: erase commands received, in order
    prog_log,       \* flash: page-program commands received, in order
    wait_owed,      \* flash: an erase / program / status write was received and no flash_wait has returned since
    device_type,    \* ecpprog.c: connected_device.type
    file_size,      \* main: long file_size
    f_pos,          \* read position of FILE *f
    rc,             \* main: int rc of the current fread
    addr,           \* main: int addr of the programming / read / verify loop
    block_offset,   \* main: int block_offset of the page loop
    erase_addr,     \* main: int addr of the erase loop
    count,          \* flash_wait: int count
    wait_ret,       \* where main continues when flash_wait returns
    wait_polls,     \* busy bits read by the polls of the current/last flash_wait
    data1,          \* data[1] of the last status poll
    busy_left,      \* busy reads the flash may still answer in this run
    exit_status,    \* process exit status, -1 while running
    mpsse,          \* mpsse.c: the FTDI connection and the transfer in progress
    buf,            \* the caller's data buffer when xfer_spi is run on its own
    obs             \* what the run has printed and written so far

tapvars == <<current_state, hw_state, tms_line, go_active, go_from, go_target,
             go_acks, go_tms, go_xfers, shift_log, last_call>>
devvars == <<hw_ir, spi_cs, spi_last, we_armed, erase_log, prog_log, wait_owed>>
mainvars == <<device_type, file_size, f_pos, rc, addr, block_offset, erase_addr,
              count, wait_ret, wait_polls, data1, busy_left, exit_status, obs>>
vars == <<cfg, pc, todo, tapvars, devvars, mainvars, mpsse, buf>>

----------------------------------------------------------------------------
(* Model bounds *)

\* jtag_go_to_state's while loop is cut off after this many iterations
MaxGoSteps == 12

----------------------------------------------------------------------------
(* TAP states, numbered as the rows of the tms_map table *)

STATE_TEST_LOGIC_RESET == 0
STATE_RUN_TEST_IDLE    == 1
STATE_SELECT_DR_SCAN   == 2
STATE_CAPTURE_DR       == 3
STATE_SHIFT_DR         == 4
STATE_EXIT1_DR         == 5
STATE_PAUSE_DR         == 6
STATE_EXIT2_DR         == 7
STATE_UPDATE_DR        == 8
STATE_SELECT_IR_SCAN   == 9
STATE_CAPTURE_IR       == 10
STATE_SHIFT_IR         == 11
STATE_EXIT1_IR         == 12
STATE_PAUSE_IR         == 13
STATE_EXIT2_IR         == 14
STATE_UPDATE_IR        == 15

TapStates == 0..15

Bit(b) == IF b THEN 1 ELSE 0

\* x >> n on non-negative x
Shr(x, n) == x \div (2^n)

TMS_T(TMS_HIGH_STATE, TMS_LOW_STATE) == TMS_HIGH_STATE * 16 + TMS_LOW_STATE

tms_transitions == [s \in TapStates |->
    CASE s = STATE_TEST_LOGIC_RESET -> TMS_T(STATE_TEST_LOGIC_RESET, STATE_RUN_TEST_IDLE)
      [] s = STATE_RUN_TEST_IDLE    -> TMS_T(STATE_SELECT_DR_SCAN,   STATE_RUN_TEST_IDLE)
      [] s = STATE_SELECT_DR_SCAN   -> TMS_T(STATE_SELECT_IR_SCAN,   STATE_CAPTURE_DR)
      [] s = STATE_CAPTURE_DR       -> TMS_T(STATE_EXIT1_DR,         STATE_SHIFT_DR)
      [] s = STATE_SHIFT_DR         -> TMS_T(STATE_EXIT1_DR,         STATE_SHIFT_DR)
      [] s = STATE_EXIT1_DR         -> TMS_T(STATE_UPDATE_DR,        STATE_PAUSE_DR)
      [] s = STATE_PAUSE_DR         -> TMS_T(STATE_EXIT2_DR,         STATE_PAUSE_DR)
      [] s = STATE_EXIT2_DR         -> TMS_T(STATE_UPDATE_DR,        STATE_SHIFT_DR)
      [] s = STATE_UPDATE_DR        -> TMS_T(STATE_SELECT_DR_SCAN,   STATE_RUN_TEST_IDLE)
      [] s = STATE_SELECT_IR_SCAN   -> TMS_T(STATE_TEST_LOGIC_RESET, STATE_CAPTURE_IR)
      [] s = STATE_CAPTURE_IR       -> TMS_T(STATE_EXIT1_IR,         STATE_SHIFT_IR)
      [] s = STATE_SHIFT_IR         -> TMS_T(STATE_EXIT1_IR,         STATE_SHIFT_IR)
      [] s = STATE_EXIT1_IR         -> TMS_T(STATE_UPDATE_IR,        STATE_PAUSE_IR)
      [] s = STATE_PAUSE_IR         -> TMS_T(STATE_EXIT2_IR,         STATE_PAUSE_IR)
      [] s = STATE_EXIT2_IR         -> TMS_T(STATE_UPDATE_IR,        STATE_SHIFT_IR)
      [] s = STATE_UPDATE_IR        -> TMS_T(STATE_SELECT_DR_SCAN,   STATE_RUN_TEST_IDLE)]

BITSTR(A, B, C, D, E, F, G, H, I, J, K, L, M, N, O, P) ==
    A * 32768 + B * 16384 + C * 8192 + D * 4096 + E * 2048 + F * 1024 + G * 512 + H * 256
    + I * 128 + J * 64 + K * 32 + L * 16 + M * 8 + N * 4 + O * 2 + P

\* tms_map with the SHIFT_DR row's bit for target SHIFT_IR cleared: from
\* Shift-DR the walk towards Shift-IR keeps TMS low and never leaves Shift-DR
tms_map_stuck == [s \in TapStates |->
    CASE s = STATE_TEST_LOGIC_RESET -> BITSTR(  0, 0, 0, 0,   0, 0, 0, 0,   0, 0, 0, 0,   0, 0, 0, 1  )
      [] s = STATE_RUN_TEST_IDLE    -> BITSTR(  1, 1, 1, 1,   1, 1, 1, 1,   1, 1, 1, 1,   1, 1, 0, 1  )
      [] s = STATE_SELECT_DR_SCAN   -> BITSTR(  1, 1, 1, 1,   1, 1, 1, 0,   0, 0, 0, 0,   0, 0, 1, 1  )
      [] s = STATE_CAPTURE_DR       -> BITSTR(  1, 1, 1, 1,   1, 1, 1, 1,   1, 1, 1, 0,   0, 1, 1, 1  )
      [] s = STATE_SHIFT_DR         -> BITSTR(  1, 1, 1, 1,   0, 1, 1, 1,   1, 1, 1, 0,   1, 1, 1, 1  )
      [] s = STATE_EXIT1_DR         -> BITSTR(  1, 1, 1, 1,   1, 1, 1, 1,   0, 0, 0, 0,   1, 1, 1, 1  )
      [] s = STATE_PAUSE_DR         -> BITSTR(  1, 1, 1, 1,   1, 1, 1, 1,   1, 0, 1, 1,   1, 1, 1, 1  )
      [] s = STATE_EXIT2_DR         -> BITSTR(  1, 1, 1, 1,   1, 1, 1, 1,   0, 0, 0, 0,   1, 1, 1, 1  )
      [] s = STATE_UPDATE_DR        -> BITSTR(  1, 1, 1, 1,   1, 1, 1, 0,   1, 1, 1, 1,   1, 1, 0, 1  )
      [] s = STATE_SELECT_IR_SCAN   -> BITSTR(  0, 0, 0, 0,   0, 0, 0, 1,   1, 1, 1, 1,   1, 1, 1, 1  )
      [] s = STATE_CAPTURE_IR       -> BITSTR(  1, 1, 1, 1,   0, 0, 1, 1,   1, 1, 1, 1,   1, 1, 1, 1  )
      [] s = STATE_SHIFT_IR         -> BITSTR(  1, 1, 1, 1,   0, 1, 1, 1,   1, 1, 1, 1,   1, 1, 1, 1  )
      [] s = STATE_EXIT1_IR         -> BITSTR(  1, 0, 0, 0,   0, 1, 1, 1,   1, 1, 1, 1,   1, 1, 1, 1  )
      [] s = STATE_PAUSE_IR         -> BITSTR(  1, 1, 0, 1,   1, 1, 1, 1,   1, 1, 1, 1,   1, 1, 1, 1  )
      [] s = STATE_EXIT2_IR         -> BITSTR(  1, 0, 0, 0,   0, 1, 1, 1,   1, 1, 1, 1,   1, 1, 1, 1  )
      [] s = STATE_UPDATE_IR        -> BITSTR(  0, 1, 1, 1,   1, 1, 1, 1,   1, 1, 1, 1,   1, 1, 0, 1  )]

tms_map == [s \in TapStates |->
    CASE s = STATE_TEST_LOGIC_RESET -> BITSTR(  0, 0, 0, 0,   0, 0, 0, 0,   0, 0, 0, 0,   0, 0, 0, 1  )
      [] s = STATE_RUN_TEST_IDLE    -> BITSTR(  1, 1, 1, 1,   1, 1, 1, 1,   1, 1, 1, 1,   1, 1, 0, 1  )
      [] s = STATE_SELECT_DR_SCAN   -> BITSTR(  1, 1, 1, 1,   1, 1, 1, 0,   0, 0, 0, 0,   0, 0, 1, 1  )
      [] s = STATE_CAPTURE_DR       -> BITSTR(  1, 1, 1, 1,   1, 1, 1, 1,   1, 1, 1, 0,   0, 1, 1, 1  )
      [] s = STATE_SHIFT_DR         -> BITSTR(  1, 1, 1, 1,   1, 1, 1, 1,   1, 1, 1, 0,   1, 1, 1, 1  )
      [] s = STATE_EXIT1_DR         -> BITSTR(  1, 1, 1, 1,   1, 1, 1, 1,   0, 0, 0, 0,   1, 1, 1, 1  )
      [] s = STATE_PAUSE_DR         -> BITSTR(  1, 1, 1, 1,   1, 1, 1, 1,   1, 0, 1, 1,   1, 1, 1, 1  )
      [] s = STATE_EXIT2_DR         -> BITSTR(  1, 1, 1, 1,   1, 1, 1, 1,   0, 0, 0, 0,   1, 1, 1, 1  )
      [] s = STATE_UPDATE_DR        -> BITSTR(  1, 1, 1, 1,   1, 1, 1, 0,   1, 1, 1, 1,   1, 1, 0, 1  )
      [] s = STATE_SELECT_IR_SCAN   -> BITSTR(  0, 0, 0, 0,   0, 0, 0, 1,   1, 1, 1, 1,   1, 1, 1, 1  )
      [] s = STATE_CAPTURE_IR       -> BITSTR(  1, 1, 1, 1,   0, 0, 1, 1,   1, 1, 1, 1,   1, 1, 1, 1  )
      [] s = STATE_SHIFT_IR         -> BITSTR(  1, 1, 1, 1,   0, 1, 1, 1,   1, 1, 1, 1,   1, 1, 1, 1  )
      [] s = STATE_EXIT1_IR         -> BITSTR(  1, 0, 0, 0,   0, 1, 1, 1,   1, 1, 1, 1,   1, 1, 1, 1  )
      [] s = STATE_PAUSE_IR         -> BITSTR(  1, 1, 0, 1,   1, 1, 1, 1,   1, 1, 1, 1,   1, 1, 1, 1  )
      [] s = STATE_EXIT2_IR         -> BITSTR(  1, 0, 0, 0,   0, 1, 1, 1,   1, 1, 1, 1,   1, 1, 1, 1  )
      [] s = STATE_UPDATE_IR        -> BITSTR(  0, 1, 1, 1,   1, 1, 1, 1,   1, 1, 1, 1,   1, 1, 0, 1  )]

\* jtag_state_ack with the nibbles swapped: TMS high takes the low nibble
ack_state_swapped(s, tms) ==
    IF tms = 1 THEN tms_transitions[s] % 16
               ELSE Shr(tms_transitions[s], 4) % 16

\* jtag_state_ack: the mirror state after one TMS bit, from state s
ack_state(s, tms) ==
    IF tms = 1 THEN Shr(tms_transitions[s], 4) % 16
               ELSE tms_transitions[s] % 16

\* the device's TAP controller: the IEEE 1149.1 state diagram, one edge per
\* TCK pulse, selected by the TMS level
RECURSIVE hw_clock(_, _)
hw_clock(s, bits) ==
    IF bits = <<>> THEN s
    ELSE hw_clock(IF Head(bits) = 1 THEN Shr(tms_transitions[s], 4) % 16
                                    ELSE tms_transitions[s] % 16,
                  Tail(bits))

\* n TCK pulses with TMS held at one level; stops early at a state that
\* level no longer leaves
RECURSIVE hw_clock_held(_, _, _)
hw_clock_held(s, level, n) ==
    IF n = 0 THEN s
    ELSE LET t == hw_clock(s, <<level>>)
         IN  IF t = s THEN s ELSE hw_clock_held(t, level, n - 1)

\* a mirror update applied for each acknowledged bit
RECURSIVE ack_all(_, _)
ack_all(s, bits) ==
    IF bits = <<>> THEN s ELSE ack_all(ack_state(s, Head(bits)), Tail(bits))

\* MPSSE "clock TMS bits" command: length byte n-1 and a data byte whose
\* bits 0..n-1 are put on TMS, least significant first
TmsCommandBits(length_byte, data_byte) ==
    [i \in 1..(length_byte + 1) |-> Shr(data_byte, i - 1) % 2]

----------------------------------------------------------------------------
(* Flash and JTAG opcodes *)

FC_WE      == 6
FC_JEDECID == 159
FC_RD      == 3
FC_PP      == 2
FC_SE      == 32
FC_BE32    == 82
FC_BE64    == 216
FC_CE      == 199
FC_RSR1    == 5
FC_WSR1    == 1
FC_RSR2    == 53

READ_ID             == 224
LSC_READ_STATUS     == 60
LSC_REFRESH         == 121
ISC_ENABLE          == 198
ISC_DISABLE         == 38
ISC_ERASE           == 14
LSC_BITSTREAM_BURST == 122
LSC_RESET_CRC       == 59
\* the opcode enter_spi_background_mode shifts into IR
BACKGROUND_SPI      == 58

EraseOps == {FC_SE, FC_BE32, FC_BE64, FC_CE}
WriteOps == EraseOps \cup {FC_PP, FC_WSR1}
StatusReadOps == {FC_RSR1, FC_RSR2}

----------------------------------------------------------------------------
(* The attached device: instruction register, SPI pass-through, flash *)

\* a byte shifted least significant bit first, as the flash assembles it
\* (first bit received is the most significant)
SpiByte(tdi_byte) ==
    LET wire == [i \in 1..8 |-> Shr(tdi_byte, i - 1) % 2]
    IN  wire[1] * 128 + wire[2] * 64 + wire[3] * 32 + wire[4] * 16
        + wire[5] * 8 + wire[6] * 4 + wire[7] * 2 + wire[8]

NoCs == [bits |-> 0, head |-> <<>>]

SeqFirst(q, n) == IF Len(q) <= n THEN q ELSE SubSeq(q, 1, n)

\* the chip-select assertion after `bits` more bits, of which the bytes
\* `tdi` are known
CsAfter(cs, tdi, bits) ==
    [bits |-> cs.bits + bits,
     head |-> IF cs.bits % 8 = 0 /\ cs.bits \div 8 = Len(cs.head)
              THEN SeqFirst(cs.head \o [i \in 1..Len(SeqFirst(tdi, bits \div 8)) |-> SpiByte(tdi[i])], 4)
              ELSE cs.head]

\* what the flash has received when chip select is released
FlashAfter(cs) ==
    LET op     == IF Len(cs.head) >= 1 THEN cs.head[1] ELSE -1
        nbytes == cs.bits \div 8
        a      == IF Len(cs.head) = 4
                  THEN cs.head[2] * 65536 + cs.head[3] * 256 + cs.head[4] ELSE -1
    IN  [last  |-> [op |-> op, armed |-> we_armed, bytes |-> nbytes, owed |-> wait_owed],
         armed |-> IF op = FC_WE THEN TRUE
                   ELSE IF op \in StatusReadOps THEN we_armed ELSE FALSE,
         erase |-> IF op \in EraseOps
                   THEN Append(erase_log, [op |-> op, addr |-> a]) ELSE erase_log,
         prog  |-> IF op = FC_PP
                   THEN Append(prog_log, [addr |-> a, n |-> nbytes - Len(cs.head)])
                   ELSE prog_log,
         owed  |-> wait_owed \/ op \in WriteOps]

\* the flash side when chip select is released with assertion cs (nothing
\* happens if no bit was shifted)
FlashSees(cs) ==
    IF cs.bits > 0
    THEN LET f == FlashAfter(cs)
         IN  /\ spi_last' = f.last
             /\ we_armed' = f.armed
             /\ erase_log' = f.erase
             /\ prog_log' = f.prog
             /\ wait_owed' = f.owed
    ELSE UNCHANGED <<spi_last, we_armed, erase_log, prog_log, wait_owed>>

\* TMS-only clocks taking the controller from hw_state to new: Update-IR
\* latches the instruction, Test-Logic-Reset restores the default one, and
\* leaving Shift-DR releases chip select (after one more shifted bit)
DeviceSeesTms(new) ==
    /\ hw_ir' = IF new = STATE_TEST_LOGIC_RESET
                THEN [hw_ir EXCEPT !.latched = READ_ID, !.spi = FALSE]
                ELSE IF new = STATE_UPDATE_IR
                THEN [hw_ir EXCEPT !.latched = hw_ir.shift,
                                   !.spi = hw_ir.spi /\ hw_ir.shift = BACKGROUND_SPI]
                ELSE hw_ir
    /\ IF hw_state = STATE_SHIFT_DR /\ new # STATE_SHIFT_DR /\ hw_ir.spi
       THEN /\ FlashSees(IF spi_cs.bits > 0 THEN CsAfter(spi_cs, <<>>, 1) ELSE spi_cs)
            /\ spi_cs' = NoCs
       ELSE UNCHANGED <<spi_cs, spi_last, we_armed, erase_log, prog_log, wait_owed>>

\* a data shift of `bits` bits (known bytes tdi) entered with the controller
\* in hw_state
DeviceSeesShift(tdi, bits, must_end) ==
    IF bits = 0 THEN UNCHANGED devvars
    ELSE IF hw_state = STATE_SHIFT_IR
    THEN /\ hw_ir' = [hw_ir EXCEPT !.shift = IF bits = 8 /\ Len(tdi) >= 1 THEN tdi[1] ELSE -1]
         /\ UNCHANGED <<spi_cs, spi_last, we_armed, erase_log, prog_log, wait_owed>>
    ELSE IF hw_state = STATE_SHIFT_DR /\ hw_ir.spi
    THEN LET cs == CsAfter(spi_cs, tdi, bits)
         IN  /\ hw_ir' = IF bits = 16 /\ tdi = <<254, 104>>
                         THEN [hw_ir EXCEPT !.unlocks = @ + 1] ELSE hw_ir
             /\ IF must_end
                THEN FlashSees(cs) /\ spi_cs' = NoCs
                ELSE spi_cs' = cs /\ UNCHANGED <<spi_last, we_armed, erase_log, prog_log, wait_owed>>
    ELSE IF /\ hw_state = STATE_SHIFT_DR
            /\ hw_ir.latched = BACKGROUND_SPI
            /\ bits = 16
            /\ tdi = <<254, 104>>
    THEN /\ hw_ir' = [hw_ir EXCEPT !.spi = TRUE, !.unlocks = @ + 1]
         /\ UNCHANGED <<spi_cs, spi_last, we_armed, erase_log, prog_log, wait_owed>>
    ELSE UNCHANGED devvars

----------------------------------------------------------------------------
(* Pending primitive calls *)

\* fn names the routine whose body makes the call (main unless In says otherwise)
Go(t)             == [op |-> "go",    arg |-> t, must_end |-> FALSE, data |-> <<>>, fn |-> "main"]
GoUnlessShiftDr   == [op |-> "go_unless_shift_dr", arg |-> STATE_SHIFT_DR, must_end |-> FALSE, data |-> <<>>, fn |-> "main"]
Shift(d, n, e)    == [op |-> "shift", arg |-> n, must_end |-> e,     data |-> d, fn |-> "main"]
WaitTime(us)      == [op |-> "wait",  arg |-> us, must_end |-> FALSE, data |-> <<>>, fn |-> "main"]

\* the calls `ops` as made by routine `fn`
In(fn, ops) == [i \in 1..Len(ops) |-> [ops[i] EXCEPT !.fn = fn]]

NoCall == [op |-> "none", arg |-> 0, must_end |-> FALSE, data |-> <<>>, fn |-> ""]

HeadIs(o) == todo # <<>> /\ Head(todo).op = o

----------------------------------------------------------------------------
(* jtag_tap.c: jtag_go_to_state *)

\* the reset branch acknowledging one TMS bit too few
reset_acks_short == [i \in 1..4 |-> 1]

\* the jtag_state_ack(true) calls of the reset branch's for loop
reset_acks == [i \in 1..5 |-> 1]

\* length byte and data byte of the reset branch's TMS command
reset_length_byte == 5 - 1
reset_data_byte   == 16 + 8 + 4 + 2 + 1

\* the loop leaving Exit1-DR through Update-DR when the target is Shift-DR
next_tms_by_update_dr(s, state) ==
    IF s = STATE_EXIT1_DR /\ state = STATE_SHIFT_DR THEN 1 ELSE Shr(tms_map[s], state) % 2

\* the loop reading the bit of the current state instead of the target's
next_tms_own_bit(s, state) == Shr(tms_map[s], s) % 2

\* (tms_map[jtag_current_state()] >> state) & 1
next_tms(s, state) == Shr(tms_map[s], state) % 2

\* bookkeeping at the entry of a jtag_go_to_state call
GoEntry(state) ==
    IF go_active
    THEN [from |-> go_from, acks |-> go_acks, tms |-> go_tms, xfers |-> go_xfers]
    ELSE [from |-> current_state, acks |-> <<>>, tms |-> <<>>, xfers |-> 0]

\* state == STATE_TEST_LOGIC_RESET: five acknowledgements, then one TMS
\* command clocking five one-bits
jtag_go_to_state_reset ==
    /\ HeadIs("go")
    /\ Head(todo).arg = STATE_TEST_LOGIC_RESET
    /\ LET acks == reset_acks
           bits == TmsCommandBits(reset_length_byte, reset_data_byte)
       IN  /\ current_state' = ack_all(current_state, acks)
           /\ hw_state' = hw_clock(hw_state, bits)
           /\ tms_line' = bits[Len(bits)]
           /\ go_from' = current_state
           /\ go_target' = STATE_TEST_LOGIC_RESET
           /\ go_acks' = acks
           /\ go_tms' = bits
           /\ go_xfers' = 1
    /\ go_active' = FALSE
    /\ todo' = Tail(todo)
    /\ DeviceSeesTms(hw_clock(hw_state, TmsCommandBits(reset_length_byte, reset_data_byte)))
    /\ last_call' = Head(todo)
    /\ UNCHANGED <<cfg, mpsse, buf, pc, shift_log, mainvars>>

\* one iteration of the while loop: acknowledge the next-hop bit, then send
\* it as a one-bit TMS command
jtag_go_to_state_step ==
    /\ HeadIs("go")
    /\ Head(todo).arg # STATE_TEST_LOGIC_RESET
    /\ current_state # Head(todo).arg
    /\ LET state == Head(todo).arg
           e     == GoEntry(state)
           tms   == next_tms(current_state, state)
           bits  == TmsCommandBits(0, tms)
       IN  /\ Len(e.acks) < MaxGoSteps
           /\ current_state' = ack_state(current_state, tms)
           /\ hw_state' = hw_clock(hw_state, bits)
           /\ tms_line' = bits[Len(bits)]
           /\ go_from' = e.from
           /\ go_target' = state
           /\ go_acks' = Append(e.acks, tms)
           /\ go_tms' = e.tms \o bits
           /\ go_xfers' = e.xfers + 1
    /\ go_active' = TRUE
    /\ DeviceSeesTms(hw_clock(hw_state, TmsCommandBits(0, next_tms(current_state, Head(todo).arg))))
    /\ UNCHANGED <<cfg, mpsse, buf, pc, todo, shift_log, last_call, mainvars>>

\* the call sending one more TMS command, of one low bit, before it returns
jtag_go_to_state_return_flushing ==
    /\ HeadIs("go")
    /\ Head(todo).arg # STATE_TEST_LOGIC_RESET
    /\ current_state = Head(todo).arg
    /\ LET e == GoEntry(Head(todo).arg)
       IN  /\ go_from' = e.from
           /\ go_target' = Head(todo).arg
           /\ go_acks' = e.acks
           /\ go_tms' = e.tms \o <<0>>
           /\ go_xfers' = e.xfers + 1
    /\ go_active' = FALSE
    /\ todo' = Tail(todo)
    /\ last_call' = Head(todo)
    /\ UNCHANGED <<cfg, mpsse, buf, pc, current_state, hw_state, tms_line, shift_log, devvars, mainvars>>

\* the while condition fails: the call returns
jtag_go_to_state_return ==
    /\ HeadIs("go")
    /\ Head(todo).arg # STATE_TEST_LOGIC_RESET
    /\ current_state = Head(todo).arg
    /\ LET e == GoEntry(Head(todo).arg)
       IN  /\ go_from' = e.from
           /\ go_target' = Head(todo).arg
           /\ go_acks' = e.acks
           /\ go_tms' = e.tms
           /\ go_xfers' = e.xfers
    /\ go_active' = FALSE
    /\ todo' = Tail(todo)
    /\ last_call' = Head(todo)
    /\ UNCHANGED <<cfg, mpsse, buf, pc, current_state, hw_state, tms_line, shift_log, devvars, mainvars>>

----------------------------------------------------------------------------
(* jtag_tap.c: jtag_tap_shift and jtag_wait_time *)

\* the inner loop raising TMS on the last bit whether or not must_end is set
shift_acks_always(data_bits, must_end) ==
    IF data_bits > 0 THEN <<1>> ELSE <<>>

\* jtag_state_ack calls of one jtag_tap_shift: one, with TMS high, at the bit
\* that leaves bit_count == 0, if must_end
shift_acks(data_bits, must_end) ==
    IF data_bits > 0 /\ must_end THEN <<1>> ELSE <<>>

\* the controller after the data_bits clocks of one shift: TMS low on every
\* bit but an acknowledged last one
ShiftHw(s, data_bits, acks) ==
    IF data_bits = 0 THEN s
    ELSE IF acks = <<>> THEN hw_clock_held(s, 0, data_bits)
    ELSE hw_clock(hw_clock_held(s, 0, data_bits - 1), acks)

\* the whole call: every bit queued as a one-bit TMS command (3 bytes), the
\* mirror acknowledged while queueing, then one mpsse_xfer
jtag_tap_shift ==
    /\ HeadIs("shift")
    /\ LET c         == Head(todo)
           data_bits == c.arg
           must_end  == c.must_end
           acks      == shift_acks(data_bits, must_end)
       IN  /\ current_state' = ack_all(current_state, acks)
           /\ hw_state' = ShiftHw(hw_state, data_bits, acks)
           /\ tms_line' = IF data_bits = 0 THEN tms_line ELSE Len(acks)
           /\ shift_log' = [data_bits |-> data_bits, must_end |-> must_end,
                            from |-> current_state, hw_from |-> hw_state,
                            acks |-> acks,
                            tx_len |-> 3 * data_bits, rx_cnt |-> data_bits % 256]
           /\ DeviceSeesShift(c.data, data_bits, acks # <<>>)
    /\ todo' = Tail(todo)
    /\ last_call' = Head(todo)
    /\ UNCHANGED <<cfg, mpsse, buf, pc, go_active, go_from, go_target, go_acks, go_tms, go_xfers, mainvars>>

\* clock-only MPSSE commands: 8 * (bytes + 1) pulses, then remain + 1 more if
\* remain is not zero, all with TMS left where the last TMS command put it
jtag_wait_time ==
    /\ HeadIs("wait")
    /\ LET microseconds == Head(todo).arg
           bytes  == microseconds \div 8
           remain == microseconds % 8
           pulses == 8 * (bytes + 1) + (IF remain # 0 THEN remain + 1 ELSE 0)
           new    == hw_clock_held(hw_state, tms_line, pulses)
       IN  /\ hw_state' = new
           /\ DeviceSeesTms(new)
    /\ todo' = Tail(todo)
    /\ last_call' = Head(todo)
    /\ UNCHANGED <<cfg, mpsse, buf, pc, current_state, tms_line, go_active, go_from, go_target,
                   go_acks, go_tms, go_xfers, shift_log, mainvars>>

----------------------------------------------------------------------------
(* ecpprog.c: SPI over JTAG *)

\* the two lowest input bits landing on each other's output bit
bit_reverse_low_bits_swapped(in) ==
      (IF Shr(in, 0) % 2 = 1 THEN 64 ELSE 0)
    + (IF Shr(in, 1) % 2 = 1 THEN 128 ELSE 0)
    + (IF Shr(in, 2) % 2 = 1 THEN 32 ELSE 0)
    + (IF Shr(in, 3) % 2 = 1 THEN 16 ELSE 0)
    + (IF Shr(in, 4) % 2 = 1 THEN 8 ELSE 0)
    + (IF Shr(in, 5) % 2 = 1 THEN 4 ELSE 0)
    + (IF Shr(in, 6) % 2 = 1 THEN 2 ELSE 0)
    + (IF Shr(in, 7) % 2 = 1 THEN 1 ELSE 0)

bit_reverse(in) ==
      (IF Shr(in, 0) % 2 = 1 THEN 128 ELSE 0)
    + (IF Shr(in, 1) % 2 = 1 THEN 64 ELSE 0)
    + (IF Shr(in, 2) % 2 = 1 THEN 32 ELSE 0)
    + (IF Shr(in, 3) % 2 = 1 THEN 16 ELSE 0)
    + (IF Shr(in, 4) % 2 = 1 THEN 8 ELSE 0)
    + (IF Shr(in, 5) % 2 = 1 THEN 4 ELSE 0)
    + (IF Shr(in, 6) % 2 = 1 THEN 2 ELSE 0)
    + (IF Shr(in, 7) % 2 = 1 THEN 1 ELSE 0)

Reversed(data) == [i \in 1..Len(data) |-> bit_reverse(data[i])]

\* xfer_spi walking on to Run-Test/Idle after its shift
xfer_spi_to_idle(data, len) ==
    In("xfer_spi", <<GoUnlessShiftDr, Shift(Reversed(data), len * 8, TRUE),
                     Go(STATE_RUN_TEST_IDLE)>>)

\* xfer_spi(data, len): data holds the bytes whose value is known (command
\* and address); payload bytes beyond them are left out
xfer_spi(data, len) ==
    In("xfer_spi", <<GoUnlessShiftDr, Shift(Reversed(data), len * 8, TRUE)>>)

\* send_spi ending its shift with must_end set
send_spi_must_end(data, len) ==
    In("send_spi", <<Go(STATE_SHIFT_DR), Shift(Reversed(data), len * 8, TRUE)>>)

send_spi(data, len) ==
    In("send_spi", <<Go(STATE_SHIFT_DR), Shift(Reversed(data), len * 8, FALSE)>>)

\* xfer_spi's test: jtag_go_to_state(STATE_SHIFT_DR) only if not there yet
xfer_spi_enter ==
    /\ HeadIs("go_unless_shift_dr")
    /\ todo' = IF current_state # STATE_SHIFT_DR
               THEN In(Head(todo).fn, <<Go(STATE_SHIFT_DR)>>) \o Tail(todo)
               ELSE Tail(todo)
    /\ UNCHANGED <<cfg, mpsse, buf, pc, tapvars, devvars, mainvars>>

----------------------------------------------------------------------------
(* ecpprog.c: flash commands, as the primitive calls they make *)

AddrBytes(a) == <<Shr(a, 16) % 256, Shr(a, 8) % 256, a % 256>>

flash_read_id == xfer_spi(<<FC_JEDECID, 0, 0, 0>>, 4)

\* data is both input and output of every shift: the 64-bit shift stores the
\* 8 captured bytes in data, the 2-bit shift stores nothing (rx_cnt / 8 = 0),
\* so the second and third shift send data[0] as the first one captured it
flash_reset ==
    In("flash_reset", <<Go(STATE_SHIFT_DR), Shift(<<255, 255, 255, 255, 255, 255, 255, 255>>, 64, TRUE),
      Go(STATE_SHIFT_DR), Shift(<<cfg.reset_tdo>>, 2, TRUE),
      Go(STATE_SHIFT_DR), Shift(<<cfg.reset_tdo>>, 8, TRUE)>>)

read_status_1 == xfer_spi(<<FC_RSR1, 0>>, 2)
read_status_2 == xfer_spi(<<FC_RSR2, 0>>, 2)
flash_read_status == read_status_1 \o read_status_2

\* flash_write_enable reading the status registers but never sending FC_WE
flash_write_enable_status_only ==
    (IF cfg.verbose THEN flash_read_status ELSE <<>>)
    \o (IF cfg.verbose THEN flash_read_status ELSE <<>>)

flash_write_enable ==
    (IF cfg.verbose THEN flash_read_status ELSE <<>>)
    \o xfer_spi(<<FC_WE>>, 1)
    \o (IF cfg.verbose THEN flash_read_status ELSE <<>>)

flash_bulk_erase == xfer_spi(<<FC_CE>>, 1)
flash_4kB_sector_erase(a)  == xfer_spi(<<FC_SE>> \o AddrBytes(a), 4)
flash_32kB_sector_erase(a) == xfer_spi(<<FC_BE32>> \o AddrBytes(a), 4)
flash_64kB_sector_erase(a) == xfer_spi(<<FC_BE64>> \o AddrBytes(a), 4)

flash_prog(a, n) == send_spi(<<FC_PP>> \o AddrBytes(a), 4) \o xfer_spi(<<>>, n)

flash_start_read(a) == send_spi(<<FC_RD>> \o AddrBytes(a), 4)
\* flash_continue_read releasing chip select after each block
flash_continue_read_releasing(n) == xfer_spi(<<>>, n)

flash_continue_read(n) == send_spi(<<>>, n)

\* flash_disable_protection up to its flash_wait, and after it
flash_disable_protection_write == xfer_spi(<<FC_WSR1, 0>>, 2)
flash_disable_protection_check == xfer_spi(<<FC_RSR1>>, 2)

----------------------------------------------------------------------------
(* ecpprog.c: ECP5 / NX JTAG commands *)

read_idcode ==
    In("read_idcode", <<Go(STATE_SHIFT_IR), Shift(<<READ_ID>>, 8, TRUE),
      Go(STATE_SHIFT_DR), Shift(<<0>>, 32, TRUE)>>)

read_status_register(type) ==
    In("read_status_register",
       <<Go(STATE_SHIFT_IR), Shift(<<LSC_READ_STATUS>>, 8, TRUE), Go(STATE_SHIFT_DR)>>
       \o (IF type = "TYPE_ECP5" THEN <<Shift(<<0>>, 32, TRUE)>>
           ELSE IF type = "TYPE_NX" THEN <<Shift(<<0>>, 64, TRUE)>>
           ELSE <<>>))

\* enter_spi_background_mode without its last walk, to Run-Test/Idle
enter_spi_background_mode_no_idle ==
    In("enter_spi_background_mode", <<Go(STATE_SHIFT_IR), Shift(<<BACKGROUND_SPI>>, 8, TRUE),
      Go(STATE_SHIFT_DR), Shift(<<254, 104>>, 16, TRUE)>>)

enter_spi_background_mode ==
    In("enter_spi_background_mode", <<Go(STATE_SHIFT_IR), Shift(<<BACKGROUND_SPI>>, 8, TRUE),
      Go(STATE_SHIFT_DR), Shift(<<254, 104>>, 16, TRUE),
      Go(STATE_RUN_TEST_IDLE)>>)

ecp_jtag_cmd(cmd) ==
    In("ecp_jtag_cmd", <<Go(STATE_SHIFT_IR), Shift(<<cmd>>, 8, TRUE),
      Go(STATE_RUN_TEST_IDLE), WaitTime(32)>>)

ecp_jtag_cmd8(cmd, param) ==
    In("ecp_jtag_cmd8", <<Go(STATE_SHIFT_IR), Shift(<<cmd>>, 8, TRUE),
      Go(STATE_SHIFT_DR), Shift(<<param>>, 8, TRUE),
      Go(STATE_RUN_TEST_IDLE), WaitTime(32)>>)

----------------------------------------------------------------------------
(* ecpprog.c: main *)

\* main is at `label` and the routine it called last has returned
At(label) == pc = label /\ todo = <<>> /\ exit_status = -1

\* call a routine (its primitive calls) and continue at `next` afterwards
Run(ops, next) == todo' = ops /\ pc' = next

Min(a, b) == IF a < b THEN a ELSE b

\* fread(buffer, 1, size, f) on a file of cfg.file_len bytes
fread(size) == Min(size, cfg.file_len - f_pos)

ecp_devices ==
    << [device_name |-> "LFE5U-12",    device_id |-> <<33, 17, 16, 67>>],
       [device_name |-> "LFE5U-25",    device_id |-> <<65, 17, 16, 67>>],
       [device_name |-> "LFE5U-45",    device_id |-> <<65, 17, 32, 67>>],
       [device_name |-> "LFE5U-85",    device_id |-> <<65, 17, 48, 67>>],
       [device_name |-> "LFE5UM-25",   device_id |-> <<1, 17, 16, 67>>],
       [device_name |-> "LFE5UM-45",   device_id |-> <<1, 17, 32, 67>>],
       [device_name |-> "LFE5UM-85",   device_id |-> <<1, 17, 48, 67>>],
       [device_name |-> "LFE5UM5G-25", device_id |-> <<129, 17, 16, 67>>],
       [device_name |-> "LFE5UM5G-45", device_id |-> <<129, 17, 32, 67>>],
       [device_name |-> "LFE5UM5G-85", device_id |-> <<129, 17, 48, 67>>] >>

nx_devices ==
    << [device_name |-> "LIFCL-17",    device_id |-> <<1, 15, 0, 67>>],
       [device_name |-> "LIFCL-40-ES", device_id |-> <<1, 15, 16, 67>>],
       [device_name |-> "LIFCL-40",    device_id |-> <<17, 15, 16, 67>>],
       [device_name |-> "LFD2NX-17",   device_id |-> <<49, 15, 0, 67>>],
       [device_name |-> "LFD2NX-40",   device_id |-> <<49, 15, 16, 67>>],
       [device_name |-> "LFCPNX-100",  device_id |-> <<1, 15, 64, 67>> ] >>

\* the first entry of a device table with the given id, 0 if there is none
RECURSIVE FirstMatch(_, _, _)
FirstMatch(table, idcode, i) ==
    IF i > Len(table) THEN 0
    ELSE IF table[i].device_id = idcode THEN i
    ELSE FirstMatch(table, idcode, i + 1)

\* print_idcode treating an IDCODE that matches no entry as an ECP5 part
print_idcode_default_ecp5(idcode) ==
    LET e == FirstMatch(ecp_devices, idcode, 1)
        n == FirstMatch(nx_devices, idcode, 1)
    IN  IF e # 0 THEN [name |-> ecp_devices[e].device_name, type |-> "TYPE_ECP5"]
        ELSE IF n # 0 THEN [name |-> nx_devices[n].device_name, type |-> "TYPE_NX"]
        ELSE [name |-> "", type |-> "TYPE_ECP5"]

\* print_idcode: connected_device.name and .type for an IDCODE (bytes, most
\* significant first); both are left as they were when no entry matches
print_idcode(idcode) ==
    LET e == FirstMatch(ecp_devices, idcode, 1)
        n == FirstMatch(nx_devices, idcode, 1)
    IN  IF e # 0 THEN [name |-> ecp_devices[e].device_name, type |-> "TYPE_ECP5"]
        ELSE IF n # 0 THEN [name |-> nx_devices[n].device_name, type |-> "TYPE_NX"]
        ELSE [name |-> "", type |-> "TYPE_NONE"]

\* the command line checks after getopt: which combinations of options main
\* rejects
options_rejected(c) ==
    LET modes == {m \in {"read_mode", "erase_mode", "check_mode", "prog_sram", "test_mode"} : c[m]}
        other == c.read_mode \/ c.check_mode \/ c.prog_sram \/ c.test_mode
    IN  \/ Cardinality(modes) > 1
        \/ c.bulk_erase /\ c.dont_erase
        \/ c.disable_protect /\ other
        \/ c.bulk_erase /\ other
        \/ c.dont_erase /\ other
        \/ c.rw_offset # 0 /\ c.prog_sram
        \/ c.rw_offset # 0 /\ c.test_mode
        \/ c.interleaved_verify /\ other

\* main taking the first file argument however many there are
filename_first_of_many(c) ==
    IF c.file_args >= 1
        THEN IF c.test_mode THEN "error" ELSE "argv"
    ELSE IF c.bulk_erase \/ c.disable_protect THEN "/dev/null"
    ELSE IF ~c.test_mode /\ ~c.erase_mode /\ ~c.disable_protect THEN "error"
    ELSE ""

\* the file name main ends up with: "" when none is set, "error" when the
\* number of file arguments is rejected
filename(c) ==
    IF c.file_args = 1
        THEN IF c.test_mode THEN "error" ELSE "argv"
    ELSE IF c.file_args # 0 THEN "error"
    ELSE IF c.bulk_erase \/ c.disable_protect THEN "/dev/null"
    ELSE IF ~c.test_mode /\ ~c.erase_mode /\ ~c.disable_protect THEN "error"
    ELSE ""

\* fopen returning NULL: only the read mode and the modes reading a file open
\* one, and only a file named on the command line can fail to open
fopen_fails(c) ==
    /\ ~c.test_mode
    /\ ~c.erase_mode
    /\ filename(c) = "argv"
    /\ ~c.can_open

main_check_options ==
    /\ At("options")
    /\ IF options_rejected(cfg)
          THEN pc' = "exit" /\ exit_status' = 1
          ELSE pc' = "filename" /\ UNCHANGED exit_status
    /\ UNCHANGED <<cfg, mpsse, buf, todo, tapvars, devvars, device_type, file_size, f_pos, rc, addr,
                   block_offset, erase_addr, count, wait_ret, wait_polls, data1, busy_left, obs>>

main_check_filename ==
    /\ At("filename")
    /\ IF filename(cfg) = "error"
          THEN pc' = "exit" /\ exit_status' = 1
          ELSE pc' = "open_file" /\ UNCHANGED exit_status
    /\ UNCHANGED <<cfg, mpsse, buf, todo, tapvars, devvars, device_type, file_size, f_pos, rc, addr,
                   block_offset, erase_addr, count, wait_ret, wait_polls, data1, busy_left, obs>>

main_open_file_fails ==
    /\ At("open_file")
    /\ fopen_fails(cfg)
    /\ pc' = "exit"
    /\ exit_status' = 1
    /\ UNCHANGED <<cfg, mpsse, buf, todo, tapvars, devvars, device_type, file_size, f_pos, rc, addr,
                   block_offset, erase_addr, count, wait_ret, wait_polls, data1, busy_left, obs>>

\* lines 1026-1101: the file size known before the hardware is touched
main_open_file ==
    /\ At("open_file")
    /\ ~fopen_fails(cfg)
    /\ file_size' = IF cfg.test_mode THEN -1
                    ELSE IF cfg.erase_mode THEN cfg.erase_size
                    ELSE IF cfg.read_mode THEN cfg.read_size
                    ELSE IF ~cfg.prog_sram THEN cfg.file_len
                    ELSE -1
    /\ pc' = "jtag_init"
    /\ UNCHANGED <<cfg, mpsse, buf, todo, tapvars, devvars, device_type, f_pos, rc, addr, block_offset,
                   erase_addr, count, wait_ret, wait_polls, data1, busy_left, exit_status, obs>>

\* jtag_init going to Run-Test/Idle instead of Test-Logic-Reset
main_jtag_init_to_idle ==
    /\ At("jtag_init")
    /\ current_state' = STATE_TEST_LOGIC_RESET
    /\ Run(In("jtag_init", <<Go(STATE_RUN_TEST_IDLE)>>), "read_idcode")
    /\ UNCHANGED <<cfg, mpsse, buf, hw_state, tms_line, go_active, go_from, go_target, go_acks, go_tms,
                   go_xfers, shift_log, last_call, devvars, mainvars>>

\* jtag_init: set the mirror to Test-Logic-Reset, then go there
main_jtag_init ==
    /\ At("jtag_init")
    /\ current_state' = STATE_TEST_LOGIC_RESET
    /\ Run(In("jtag_init", <<Go(STATE_TEST_LOGIC_RESET)>>), "read_idcode")
    /\ UNCHANGED <<cfg, mpsse, buf, hw_state, tms_line, go_active, go_from, go_target, go_acks, go_tms,
                   go_xfers, shift_log, last_call, devvars, mainvars>>

main_read_idcode ==
    /\ At("read_idcode")
    /\ Run(read_idcode, "print_idcode")
    /\ UNCHANGED <<cfg, mpsse, buf, tapvars, devvars, mainvars>>

\* the bytes jtag_tap_shift stores when the device shifts out a register
\* holding `word` (bytes, most significant first): the least significant bit
\* leaves first, so data[0] is the low byte
captured(word) == [i \in 1..Len(word) |-> word[Len(word) + 1 - i]]

\* the word the status register holds, taken to be the same at every read
status_word(type) ==
    IF type = "TYPE_ECP5" THEN <<0, 32, 15, 129>>
    ELSE IF type = "TYPE_NX" THEN <<0, 0, 1, 2, 0, 32, 15, 129>>
    ELSE <<>>

\* the loop body value = data[i] << (width - 8) | value >> 8, on a value kept
\* as bytes, most significant first
RECURSIVE format_from(_, _, _)
format_from(data, value, i) ==
    IF i > Len(value) THEN value
    ELSE format_from(data, <<data[i]>> \o SubSeq(value, 1, Len(value) - 1), i + 1)

\* the formatting loop taking data[0] as the most significant byte
format_word_first_byte_high(data, n) == SubSeq(data, 1, n)

\* for (i = 0; i < n; i++) value = data[i] << (8 * (n - 1)) | value >> 8
format_word(data, n) == format_from(data, [k \in 1..n |-> 0], 1)

main_print_idcode ==
    /\ At("print_idcode")
    /\ device_type' = print_idcode(format_word(captured(cfg.idcode), 4)).type
    /\ obs' = [obs EXCEPT !.name = print_idcode(format_word(captured(cfg.idcode), 4)).name,
                          !.idcode = format_word(captured(cfg.idcode), 4)]
    /\ pc' = "read_status_register"
    /\ UNCHANGED <<cfg, mpsse, buf, todo, tapvars, devvars, file_size, f_pos, rc, addr, block_offset,
                   erase_addr, count, wait_ret, wait_polls, data1, busy_left, exit_status>>

\* read_status_register and the word it prints
main_read_status_register ==
    /\ At("read_status_register")
    /\ Run(read_status_register(device_type), "mode")
    /\ obs' = [obs EXCEPT !.status =
                  IF device_type = "TYPE_ECP5"
                  THEN format_word(captured(status_word(device_type)), 4)
                  ELSE IF device_type = "TYPE_NX"
                  THEN format_word(captured(status_word(device_type)), 8)
                  ELSE <<>>]
    /\ UNCHANGED <<cfg, mpsse, buf, tapvars, devvars, device_type, file_size, f_pos, rc, addr,
                   block_offset, erase_addr, count, wait_ret, wait_polls, data1, busy_left,
                   exit_status>>

\* if (test_mode)
main_test_mode ==
    /\ At("mode")
    /\ cfg.test_mode
    /\ Run(ecp_jtag_cmd8(ISC_ENABLE, 0) \o ecp_jtag_cmd8(ISC_ERASE, 0) \o ecp_jtag_cmd(ISC_DISABLE)
           \o enter_spi_background_mode \o flash_reset \o flash_read_id \o flash_read_status,
           "reinitialize")
    /\ UNCHANGED <<cfg, mpsse, buf, tapvars, devvars, mainvars>>

\* else if (prog_sram): reset, status, LSC_BITSTREAM_BURST
main_sram_reset ==
    /\ At("mode")
    /\ ~cfg.test_mode /\ cfg.prog_sram
    /\ Run(ecp_jtag_cmd8(ISC_ENABLE, 0) \o ecp_jtag_cmd8(ISC_ERASE, 0)
           \o ecp_jtag_cmd8(LSC_RESET_CRC, 0) \o read_status_register(device_type)
           \o ecp_jtag_cmd(LSC_BITSTREAM_BURST),
           "sram_loop")
    /\ UNCHANGED <<cfg, mpsse, buf, tapvars, devvars, mainvars>>

\* one iteration of the SRAM while loop: read up to 16 KiB and shift it, or
\* leave the loop at end of file and send ISC_DISABLE
main_sram_chunk ==
    /\ At("sram_loop")
    /\ LET n == fread(16 * 1024)
       IN  /\ rc' = n
           /\ IF n <= 0
              THEN /\ Run(ecp_jtag_cmd(ISC_DISABLE) \o read_status_register(device_type),
                          "reinitialize")
                   /\ UNCHANGED f_pos
              ELSE /\ Run(<<Go(STATE_CAPTURE_DR), Shift(<<>>, n * 8, FALSE)>>, "sram_loop")
                   /\ f_pos' = f_pos + n
    /\ UNCHANGED <<cfg, mpsse, buf, tapvars, devvars, device_type, file_size, addr, block_offset,
                   erase_addr, count, wait_ret, wait_polls, data1, busy_left, exit_status, obs>>

\* else: reset the ECP5, enter SPI background mode, reset and identify the flash
\* the flash mode reading the JEDEC ID before the flash is reset
main_flash_reset_id_first ==
    /\ At("mode")
    /\ ~cfg.test_mode /\ ~cfg.prog_sram
    /\ Run(ecp_jtag_cmd8(ISC_ENABLE, 0) \o ecp_jtag_cmd8(ISC_ERASE, 0)
           \o ecp_jtag_cmd8(ISC_DISABLE, 0)
           \o enter_spi_background_mode \o flash_read_id \o flash_reset,
           IF ~cfg.read_mode /\ ~cfg.check_mode THEN "protect" ELSE "read_verify")
    /\ UNCHANGED <<cfg, mpsse, buf, tapvars, devvars, mainvars>>

main_flash_reset ==
    /\ At("mode")
    /\ ~cfg.test_mode /\ ~cfg.prog_sram
    /\ Run(ecp_jtag_cmd8(ISC_ENABLE, 0) \o ecp_jtag_cmd8(ISC_ERASE, 0)
           \o ecp_jtag_cmd8(ISC_DISABLE, 0)
           \o enter_spi_background_mode \o flash_reset \o flash_read_id,
           IF ~cfg.read_mode /\ ~cfg.check_mode THEN "protect" ELSE "read_verify")
    /\ UNCHANGED <<cfg, mpsse, buf, tapvars, devvars, mainvars>>

\* the caller going on without calling flash_wait
EnterFlashWait_skipped(ret) ==
    /\ pc' = ret
    /\ wait_ret' = ret
    /\ count' = 0
    /\ wait_polls' = <<>>

\* entering flash_wait: count = 0, no poll made yet
EnterFlashWait(ret) ==
    /\ pc' = "flash_wait"
    /\ wait_ret' = ret
    /\ count' = 0
    /\ wait_polls' = <<>>

\* if (disable_protect): write enable, status register write, flash_wait
main_disable_protect ==
    /\ At("protect")
    /\ IF cfg.disable_protect
       THEN /\ todo' = flash_write_enable \o flash_disable_protection_write
            /\ EnterFlashWait("protect_check")
       ELSE /\ pc' = "erase"
            /\ UNCHANGED <<todo, wait_ret, count, wait_polls>>
    /\ UNCHANGED <<cfg, mpsse, buf, tapvars, devvars, device_type, file_size, f_pos, rc, addr,
                   block_offset, erase_addr, data1, busy_left, exit_status, obs>>

\* flash_disable_protection after its flash_wait: read status register 1
main_protect_check ==
    /\ At("protect_check")
    /\ Run(flash_disable_protection_check, "erase")
    /\ UNCHANGED <<cfg, mpsse, buf, tapvars, devvars, mainvars>>

\* block_size, block_mask, begin_addr, end_addr of the block erase
block_size == cfg.erase_block_size * 1024
block_mask == block_size - 1

\* x & ~m on ints, bit by bit, for 0 <= x and 0 <= m (bit 31 of x is clear)
RECURSIVE AndNotFrom(_, _, _)
AndNotFrom(x, m, i) ==
    IF i > 30 THEN 0
    ELSE (Shr(x, i) % 2) * (1 - (Shr(m, i) % 2)) * (2^i) + AndNotFrom(x, m, i + 1)

AndNotMask(x) == AndNotFrom(x, block_mask, 0)

\* begin_addr left at the offset given, not aligned down to a block
begin_addr_not_aligned == cfg.rw_offset

begin_addr == AndNotMask(cfg.rw_offset)

\* end_addr without rounding the end of the range up to a block boundary
end_addr_not_rounded == AndNotMask(cfg.rw_offset + file_size)

end_addr == AndNotMask(cfg.rw_offset + file_size + block_mask)

\* if (!dont_erase): bulk erase, or set up the block erase loop
main_erase ==
    /\ At("erase")
    /\ IF cfg.dont_erase
       THEN /\ pc' = "program"
            /\ UNCHANGED <<todo, wait_ret, count, wait_polls, erase_addr>>
       ELSE IF cfg.bulk_erase
       THEN /\ todo' = flash_write_enable \o flash_bulk_erase
            /\ EnterFlashWait("program")
            /\ UNCHANGED erase_addr
       ELSE /\ erase_addr' = begin_addr
            /\ pc' = "erase_loop"
            /\ UNCHANGED <<todo, wait_ret, count, wait_polls>>
    /\ UNCHANGED <<cfg, mpsse, buf, tapvars, devvars, device_type, file_size, f_pos, rc, addr,
                   block_offset, data1, busy_left, exit_status, obs>>

\* the switch taking the 4 kB erase whatever the block size
flash_sector_erase_4kB_always(a) == flash_4kB_sector_erase(a)

\* the erase routine the switch on erase_block_size selects
flash_sector_erase(a) ==
    IF cfg.erase_block_size = 4 THEN flash_4kB_sector_erase(a)
    ELSE IF cfg.erase_block_size = 32 THEN flash_32kB_sector_erase(a)
    ELSE IF cfg.erase_block_size = 64 THEN flash_64kB_sector_erase(a)
    ELSE <<>>

\* one iteration of the erase for loop up to flash_wait, or its exit
main_erase_block ==
    /\ At("erase_loop")
    /\ IF erase_addr < end_addr
       THEN /\ todo' = flash_write_enable \o flash_sector_erase(erase_addr)
                       \o (IF cfg.verbose THEN flash_read_status ELSE <<>>)
            /\ EnterFlashWait("erase_next")
       ELSE /\ pc' = "program"
            /\ UNCHANGED <<todo, wait_ret, count, wait_polls>>
    /\ UNCHANGED <<cfg, mpsse, buf, tapvars, devvars, device_type, file_size, f_pos, rc, addr,
                   block_offset, erase_addr, data1, busy_left, exit_status, obs>>

\* addr += block_size
main_erase_next ==
    /\ At("erase_next")
    /\ erase_addr' = erase_addr + block_size
    /\ pc' = "erase_loop"
    /\ UNCHANGED <<cfg, mpsse, buf, todo, tapvars, devvars, device_type, file_size, f_pos, rc, addr,
                   block_offset, count, wait_ret, wait_polls, data1, busy_left, exit_status, obs>>

----------------------------------------------------------------------------
(* ecpprog.c: main, programming and verifying *)

\* unsigned int read_blocksize = 256 * 32
read_blocksize == 256 * 32

\* if (!erase_mode): start the programming loop
main_program ==
    /\ At("program")
    /\ IF cfg.erase_mode
       THEN pc' = "read_verify" /\ UNCHANGED addr
       ELSE pc' = "prog_read" /\ addr' = 0
    /\ UNCHANGED <<cfg, mpsse, buf, todo, tapvars, devvars, device_type, file_size, f_pos, rc,
                   block_offset, erase_addr, count, wait_ret, wait_polls, data1,
                   busy_left, exit_status, obs>>

\* rc = fread(buffer_file, 1, read_blocksize, f); at end of file leave the
\* loop and rewind the file
main_prog_read ==
    /\ At("prog_read")
    /\ LET n == fread(read_blocksize)
       IN  /\ rc' = n
           /\ IF n <= 0
              THEN f_pos' = 0 /\ pc' = "read_verify" /\ UNCHANGED block_offset
              ELSE f_pos' = f_pos + n /\ pc' = "prog_page" /\ block_offset' = 0
    /\ UNCHANGED <<cfg, mpsse, buf, todo, tapvars, devvars, device_type, file_size, addr,
                   erase_addr, count, wait_ret, wait_polls, data1, busy_left, exit_status, obs>>

\* int write_addr = rw_offset + addr + block_offset
write_addr == cfg.rw_offset + addr + block_offset

\* the segment taken as a whole page wherever write_addr lies in its page
written_whole_page ==
    LET w == 256
    IN  IF block_offset + w > read_blocksize THEN read_blocksize - block_offset ELSE w

\* written = 256 - write_addr % 256, cut at the end of the read_blocksize buffer
written ==
    LET w == 256 - (write_addr % 256)
    IN  IF block_offset + w > read_blocksize THEN read_blocksize - block_offset ELSE w

\* one iteration of the page loop up to flash_wait; after the last page the
\* interleaved verify of the chunk, if selected
main_prog_page ==
    /\ At("prog_page")
    /\ IF block_offset < rc
       THEN /\ todo' = flash_write_enable \o flash_prog(write_addr, written)
            /\ EnterFlashWait("prog_page_next")
       ELSE IF ~cfg.disable_verify /\ cfg.interleaved_verify
       THEN /\ todo' = flash_start_read(cfg.rw_offset + addr) \o flash_continue_read(rc)
            /\ EnterFlashWait("prog_compare")
       ELSE /\ pc' = "prog_chunk_next"
            /\ UNCHANGED <<todo, wait_ret, count, wait_polls>>
    /\ UNCHANGED <<cfg, mpsse, buf, tapvars, devvars, device_type, file_size, f_pos, rc, addr,
                   block_offset, erase_addr, data1, busy_left, exit_status, obs>>

\* block_offset += written
main_prog_page_next ==
    /\ At("prog_page_next")
    /\ block_offset' = block_offset + written
    /\ pc' = "prog_page"
    /\ UNCHANGED <<cfg, mpsse, buf, todo, tapvars, devvars, device_type, file_size, f_pos, rc, addr,
                   erase_addr, count, wait_ret, wait_polls, data1, busy_left, exit_status, obs>>

\* jtag_error ending the process with the transport failure status whatever
\* status it is given
jtag_error_status_2(status) ==
    /\ exit_status' = 2
    /\ pc' = "exit"

\* jtag_error(status): the global abort-and-exit routine; the process ends
\* with that status
jtag_error(status) ==
    /\ exit_status' = status
    /\ pc' = "exit"

\* memcmp(buffer_file, buffer_flash, rc) of the interleaved verify
main_prog_compare ==
    /\ At("prog_compare")
    /\ \E differs \in BOOLEAN :
         /\ obs' = [obs EXCEPT !.differ = differs, !.compared = Len(prog_log)]
         /\ IF differs THEN jtag_error(3)
                       ELSE pc' = "prog_chunk_next" /\ UNCHANGED exit_status
    /\ UNCHANGED <<cfg, mpsse, buf, todo, tapvars, devvars, device_type, file_size, f_pos, rc, addr,
                   block_offset, erase_addr, count, wait_ret, wait_polls, data1, busy_left>>

\* addr += rc
main_prog_chunk_next ==
    /\ At("prog_chunk_next")
    /\ addr' = addr + rc
    /\ pc' = "prog_read"
    /\ UNCHANGED <<cfg, mpsse, buf, todo, tapvars, devvars, device_type, file_size, f_pos, rc,
                   block_offset, erase_addr, count, wait_ret, wait_polls, data1,
                   busy_left, exit_status, obs>>

\* the Read/Verify section: start the read, or the deferred verify, or skip
main_read_verify ==
    /\ At("read_verify")
    /\ IF cfg.read_mode
       THEN Run(flash_start_read(cfg.rw_offset), "read_loop") /\ addr' = 0
       ELSE IF ~cfg.erase_mode /\ ~cfg.disable_verify /\ ~cfg.interleaved_verify
       THEN Run(flash_start_read(cfg.rw_offset), "verify_loop") /\ addr' = 0
       ELSE pc' = "reinitialize" /\ UNCHANGED <<todo, addr>>
    /\ UNCHANGED <<cfg, mpsse, buf, tapvars, devvars, device_type, file_size, f_pos, rc,
                   block_offset, erase_addr, count, wait_ret, wait_polls, data1,
                   busy_left, exit_status, obs>>

\* one iteration of the read loop
main_read_block ==
    /\ At("read_loop")
    /\ IF addr < cfg.read_size
       THEN Run(flash_continue_read(read_blocksize), "read_fwrite")
       ELSE pc' = "reinitialize" /\ UNCHANGED todo
    /\ UNCHANGED <<cfg, mpsse, buf, tapvars, devvars, device_type, file_size, f_pos, rc, addr,
                   block_offset, erase_addr, count, wait_ret, wait_polls, data1,
                   busy_left, exit_status, obs>>

\* fwrite(buffer, read_size - addr > read_blocksize ? read_blocksize : read_size - addr, 1, f)
\* and the loop's addr += read_blocksize
main_read_fwrite ==
    /\ At("read_fwrite")
    /\ obs' = [obs EXCEPT !.out_bytes = @ + (IF cfg.read_size - addr > read_blocksize
                                              THEN read_blocksize
                                              ELSE cfg.read_size - addr)]
    /\ addr' = addr + read_blocksize
    /\ pc' = "read_loop"
    /\ UNCHANGED <<cfg, mpsse, buf, todo, tapvars, devvars, device_type, file_size, f_pos, rc,
                   block_offset, erase_addr, count, wait_ret, wait_polls, data1,
                   busy_left, exit_status>>

\* one iteration of the deferred verify loop up to the comparison
main_verify_block ==
    /\ At("verify_loop")
    /\ IF addr < file_size
       THEN LET n == fread(read_blocksize)
            IN  /\ rc' = n
                /\ IF n <= 0
                   THEN /\ pc' = "reinitialize"
                        /\ obs' = [obs EXCEPT !.verify_ok = TRUE]
                        /\ UNCHANGED <<todo, f_pos>>
                   ELSE /\ Run(flash_continue_read(n), "verify_compare")
                        /\ f_pos' = f_pos + n
                        /\ UNCHANGED obs
       ELSE /\ pc' = "reinitialize"
            /\ obs' = [obs EXCEPT !.verify_ok = TRUE]
            /\ UNCHANGED <<todo, f_pos, rc>>
    /\ UNCHANGED <<cfg, mpsse, buf, tapvars, devvars, device_type, file_size, addr,
                   block_offset, erase_addr, count, wait_ret, wait_polls, data1,
                   busy_left, exit_status>>

\* memcmp(buffer_file, buffer_flash, rc) of the deferred verify
main_verify_compare ==
    /\ At("verify_compare")
    /\ \E differs \in BOOLEAN :
         /\ obs' = [obs EXCEPT !.differ = differs]
         /\ IF differs THEN jtag_error(3) /\ UNCHANGED addr
                       ELSE pc' = "verify_loop" /\ addr' = addr + read_blocksize
                            /\ UNCHANGED exit_status
    /\ UNCHANGED <<cfg, mpsse, buf, todo, tapvars, devvars, device_type, file_size, f_pos, rc,
                   block_offset, erase_addr, count, wait_ret, wait_polls, data1, busy_left>>

\* if (reinitialize) ecp_jtag_cmd(LSC_REFRESH)
main_reinitialize ==
    /\ At("reinitialize")
    /\ Run(IF cfg.reinitialize THEN ecp_jtag_cmd(LSC_REFRESH) ELSE <<>>, "bye")
    /\ UNCHANGED <<cfg, mpsse, buf, tapvars, devvars, mainvars>>

\* jtag_deinit(); return 0
main_return ==
    /\ At("bye")
    /\ exit_status' = 0
    /\ pc' = "exit"
    /\ UNCHANGED <<cfg, mpsse, buf, todo, tapvars, devvars, device_type, file_size, f_pos, rc, addr,
                   block_offset, erase_addr, count, wait_ret, wait_polls, data1, busy_left, obs>>

----------------------------------------------------------------------------
(* ecpprog.c: flash_wait *)

\* one poll: uint8_t data[2] = { FC_RSR1 }; xfer_spi(data, 2)
flash_wait_poll ==
    /\ At("flash_wait")
    /\ Run(xfer_spi(<<FC_RSR1, 0>>, 2), "flash_wait_check")
    /\ UNCHANGED <<cfg, mpsse, buf, tapvars, devvars, mainvars>>

\* the number of clear reads at the end of a sequence of polls
RECURSIVE TrailingClears(_)
TrailingClears(polls) ==
    IF polls = <<>> \/ polls[Len(polls)] # 0 THEN 0
    ELSE 1 + TrailingClears(SubSeq(polls, 1, Len(polls) - 1))

\* the last n elements of q
LastN(q, n) == IF Len(q) <= n THEN q ELSE SubSeq(q, Len(q) - n + 1, Len(q))

\* busy_left of a flash that never reads ready three polls in a row
NeverReady == -1

\* the loop leaving at the first clear read
flash_wait_break_at_first_clear(c) == ~(c < 0)

\* the loop leaving one clear read early
flash_wait_break_early(c) == ~(c < 1)

\* if (count < 2) count++; else break
flash_wait_break(c) == ~(c < 2)

\* the poll's answer: busy bit clear counts towards the three reads, busy
\* bit set starts the count again. The flash answers busy busy_left more
\* times in the run, or, as NeverReady, anything but a third clear read in a
\* row (wait_polls then keeps the last three polls)
flash_wait_check ==
    /\ At("flash_wait_check")
    /\ \E busy \in {0, 1} :
         /\ IF busy_left = NeverReady
            THEN busy = 0 => TrailingClears(wait_polls) < 2
            ELSE busy = 1 => busy_left > 0
         /\ data1' = busy
         /\ busy_left' = IF busy_left = NeverReady THEN busy_left ELSE busy_left - busy
         /\ wait_polls' = IF busy_left = NeverReady
                          THEN LastN(Append(wait_polls, busy), 3)
                          ELSE Append(wait_polls, busy)
         /\ IF busy = 0
            THEN IF ~flash_wait_break(count)
                 THEN count' = count + 1 /\ pc' = "flash_wait" /\ UNCHANGED wait_owed
                 ELSE count' = count /\ pc' = wait_ret /\ wait_owed' = FALSE
            ELSE count' = 0 /\ pc' = "flash_wait" /\ UNCHANGED wait_owed
    /\ UNCHANGED <<cfg, mpsse, buf, todo, tapvars, hw_ir, spi_cs, spi_last, we_armed, erase_log, prog_log,
                   device_type, file_size, f_pos, rc, addr,
                   block_offset, erase_addr, wait_ret, exit_status, obs>>

\* a jtag_go_to_state call has returned and nothing else has run since
GoReturned == todo = <<>> /\ ~go_active

----------------------------------------------------------------------------
(* TAP navigation on its own: one jtag_go_to_state call from any state *)

NoCfg == [mode |-> "tap"]

\* the FTDI connection after a successful mpsse_init
MpsseUp ==
    [pc |-> "idle", open |-> TRUE, latency_set |-> TRUE, sent |-> 7,
     restored |-> 0, usb_closed |-> 0, deinit |-> 0, io |-> 0,
     send_length |-> 0, receive_length |-> 0, rx_len |-> 0,
     xfers |-> 0, zero_reads |-> 0, stored |-> {}, fault |-> "none"]

\* no buffer under test
NoBuf == [orig |-> <<>>, data |-> <<>>, len |-> 0, done |-> <<>>, entry |-> 0]

\* nothing printed, nothing written
NoObs == [verify_ok |-> FALSE, out_bytes |-> 0, differ |-> FALSE, name |-> "",
          compared |-> 0, idcode |-> <<>>, status |-> <<>>]

\* the device and main variables before anything has run
DeviceIdle ==
    /\ hw_ir = [shift |-> -1, latched |-> READ_ID, spi |-> FALSE, unlocks |-> 0]
    /\ spi_cs = NoCs
    /\ spi_last = [op |-> -1, armed |-> FALSE, bytes |-> 0, owed |-> FALSE]
    /\ we_armed = FALSE
    /\ erase_log = <<>>
    /\ prog_log = <<>>
    /\ wait_owed = FALSE

MainIdle ==
    /\ device_type = "TYPE_NONE"
    /\ file_size = -1
    /\ f_pos = 0
    /\ rc = 0
    /\ addr = 0
    /\ block_offset = 0
    /\ erase_addr = 0
    /\ count = 0
    /\ wait_ret = ""
    /\ wait_polls = <<>>
    /\ data1 = 0
    /\ exit_status = -1
    /\ obs = NoObs

InitTap ==
    /\ cfg = NoCfg
    /\ pc = "tap"
    /\ current_state \in TapStates
    /\ hw_state = current_state
    /\ tms_line = 0
    /\ \E t \in TapStates : todo = <<Go(t)>>
    /\ go_active = FALSE
    /\ go_from = current_state
    /\ go_target = current_state
    /\ go_acks = <<>>
    /\ go_tms = <<>>
    /\ go_xfers = 0
    /\ shift_log = <<>>
    /\ last_call = NoCall
    /\ DeviceIdle
    /\ MainIdle
    /\ busy_left = 0
    /\ mpsse = MpsseUp
    /\ buf = NoBuf

NextTap ==
    \/ jtag_go_to_state_reset
    \/ jtag_go_to_state_step
    \/ jtag_go_to_state_return

SpecTap == InitTap /\ [][NextTap]_vars

\* the program is one thread that keeps executing: a call in progress runs on
SpecTapFair == InitTap /\ [][NextTap]_vars /\ WF_vars(NextTap)

----------------------------------------------------------------------------
(* A whole run of ecpprog: command line, file and device drawn from small sets *)

\* how many status polls of a run may read the busy bit set
MaxBusyReads == 1

IDCODE_LFE5U_25 == <<65, 17, 16, 67>>
IDCODE_LIFCL_40 == <<1, 15, 16, 67>>
IDCODE_UNKNOWN  == <<255, 255, 255, 255>>

\* the defaults main gives its options
DefaultCfg ==
    [test_mode |-> FALSE, prog_sram |-> FALSE, read_mode |-> FALSE, check_mode |-> FALSE,
     erase_mode |-> FALSE, bulk_erase |-> FALSE, dont_erase |-> FALSE,
     disable_protect |-> FALSE, disable_verify |-> FALSE, interleaved_verify |-> FALSE,
     reinitialize |-> FALSE, verbose |-> FALSE,
     erase_block_size |-> 64, rw_offset |-> 0, erase_size |-> 0,
     read_size |-> 256 * 1024, file_len |-> 0, idcode |-> IDCODE_LFE5U_25,
     file_args |-> 1, can_open |-> TRUE, reset_tdo |-> 255]

\* what TDO may return in the first 8 clocks of flash_reset's 64-bit shift
\* (reset_tdo): all ones, all zeros, only bit 1 clear
ResetTdoBytes == {255, 0, 253}

\* -t
TestCfgs ==
    { [DefaultCfg EXCEPT !.test_mode = TRUE, !.idcode = id, !.reinitialize = a,
                         !.file_args = 0, !.reset_tdo = t] :
        id \in {IDCODE_LFE5U_25, IDCODE_LIFCL_40, IDCODE_UNKNOWN}, a \in BOOLEAN,
        t \in ResetTdoBytes }

\* -S file
SramCfgs ==
    { [DefaultCfg EXCEPT !.prog_sram = TRUE, !.file_len = n, !.idcode = id] :
        n \in {0, 3, 16 * 1024, 16 * 1024 + 6},
        id \in {IDCODE_LFE5U_25, IDCODE_LIFCL_40} }

\* -r / -R n, with -o
ReadCfgs ==
    { [DefaultCfg EXCEPT !.read_mode = TRUE, !.read_size = n, !.rw_offset = o] :
        n \in {1, 8192, 8193, 256 * 1024}, o \in {0, 1024 * 1024} }

\* -c file, with -o
CheckCfgs ==
    { [DefaultCfg EXCEPT !.check_mode = TRUE, !.file_len = n, !.rw_offset = o] :
        n \in {0, 100, 8193}, o \in {0, 254} }

\* -e n, with -o, -k and -p
EraseCfgs ==
    { [DefaultCfg EXCEPT !.erase_mode = TRUE, !.erase_size = n, !.rw_offset = o,
                         !.erase_block_size = k, !.disable_protect = p] :
        n \in {0, 1, 8192, 99302, 294312},
        o \in {0, 1, 61440, 1024 * 1024},
        k \in {4, 32, 64},
        p \in BOOLEAN }

\* programming a short file: every erase and verify variant
ProgCfgs ==
    { [DefaultCfg EXCEPT !.file_len = n, !.rw_offset = o,
                         !.bulk_erase = (e = "bulk"), !.dont_erase = (e = "none"),
                         !.disable_verify = (v = "none"),
                         !.interleaved_verify = (v = "interleaved")] :
        n \in {0, 1, 69, 324, 600},
        o \in {0, 254, 1024 * 1024},
        e \in {"block", "bulk", "none"},
        v \in {"deferred", "interleaved", "none"} }

\* programming with -p, -v, -a and -k
ProgOptionCfgs ==
    { [DefaultCfg EXCEPT !.file_len = 324, !.rw_offset = 254,
                         !.disable_protect = p, !.verbose = vb, !.reinitialize = a,
                         !.erase_block_size = k, !.bulk_erase = b] :
        p \in BOOLEAN, vb \in BOOLEAN, a \in BOOLEAN, k \in {4, 32, 64}, b \in BOOLEAN }

\* programming across the seam between two 8192-byte chunks of the file
SeamCfgs ==
    { [DefaultCfg EXCEPT !.file_len = n, !.rw_offset = o, !.dont_erase = TRUE,
                         !.disable_verify = (v = "none"),
                         !.interleaved_verify = (v = "interleaved")] :
        n \in {8192, 8193, 8192 + 300},
        o \in {0, 1, 254},
        v \in {"none", "interleaved"} }

\* each flash mode on a device whose IDCODE is in neither table
UnknownCfgs ==
    { [DefaultCfg EXCEPT !.idcode = IDCODE_UNKNOWN, !.file_len = 324, !.rw_offset = 254],
      [DefaultCfg EXCEPT !.idcode = IDCODE_UNKNOWN, !.erase_mode = TRUE, !.erase_size = 8192],
      [DefaultCfg EXCEPT !.idcode = IDCODE_UNKNOWN, !.read_mode = TRUE, !.read_size = 8193],
      [DefaultCfg EXCEPT !.idcode = IDCODE_UNKNOWN, !.check_mode = TRUE, !.file_len = 100] }

\* programming across the boundary between two erase blocks, with -X
BoundaryCfgs ==
    { [DefaultCfg EXCEPT !.file_len = n, !.rw_offset = o, !.erase_block_size = k,
                         !.disable_verify = TRUE] :
        n \in {1, 2, 324},
        o \in {3900, 4095, 65535},
        k \in {4, 32, 64} }

Cfgs == TestCfgs \cup SramCfgs \cup ReadCfgs \cup CheckCfgs \cup EraseCfgs
        \cup ProgCfgs \cup ProgOptionCfgs \cup SeamCfgs \cup UnknownCfgs
        \cup BoundaryCfgs

\* main after option parsing; the TAP controller is in any state at power-on
Init ==
    /\ cfg \in Cfgs
    /\ pc = "open_file"
    /\ todo = <<>>
    /\ current_state = STATE_TEST_LOGIC_RESET
    /\ hw_state \in TapStates
    /\ tms_line = 0
    /\ go_active = FALSE
    /\ go_from = current_state
    /\ go_target = current_state
    /\ go_acks = <<>>
    /\ go_tms = <<>>
    /\ go_xfers = 0
    /\ shift_log = <<>>
    /\ last_call = NoCall
    /\ DeviceIdle
    /\ MainIdle
    /\ busy_left = MaxBusyReads
    /\ mpsse = MpsseUp
    /\ buf = NoBuf

Next ==
    \/ jtag_go_to_state_reset
    \/ jtag_go_to_state_step
    \/ jtag_go_to_state_return
    \/ jtag_tap_shift
    \/ jtag_wait_time
    \/ xfer_spi_enter
    \/ main_open_file
    \/ main_jtag_init
    \/ main_read_idcode
    \/ main_print_idcode
    \/ main_read_status_register
    \/ main_test_mode
    \/ main_sram_reset
    \/ main_sram_chunk
    \/ main_flash_reset
    \/ main_disable_protect
    \/ main_protect_check
    \/ main_erase
    \/ main_erase_block
    \/ main_erase_next
    \/ main_program
    \/ main_prog_read
    \/ main_prog_page
    \/ main_prog_page_next
    \/ main_prog_compare
    \/ main_prog_chunk_next
    \/ main_read_verify
    \/ main_read_block
    \/ main_read_fwrite
    \/ main_verify_block
    \/ main_verify_compare
    \/ main_reinitialize
    \/ main_return
    \/ flash_wait_poll
    \/ flash_wait_check

Spec == Init /\ [][Next]_vars

----------------------------------------------------------------------------
(* Whole runs under fair scheduling, on a flash that becomes ready and on one
   that never reads ready three polls in a row *)

WaitCfgs ==
    { [DefaultCfg EXCEPT !.test_mode = TRUE, !.file_args = 0],
      [DefaultCfg EXCEPT !.prog_sram = TRUE, !.file_len = 3],
      [DefaultCfg EXCEPT !.read_mode = TRUE, !.read_size = 1],
      [DefaultCfg EXCEPT !.check_mode = TRUE, !.file_len = 100],
      [DefaultCfg EXCEPT !.erase_mode = TRUE, !.erase_size = 8192, !.erase_block_size = 4,
                         !.disable_protect = TRUE],
      [DefaultCfg EXCEPT !.file_len = 324, !.rw_offset = 254],
      [DefaultCfg EXCEPT !.file_len = 324, !.bulk_erase = TRUE, !.interleaved_verify = TRUE],
      [DefaultCfg EXCEPT !.file_len = 324, !.dont_erase = TRUE] }

InitWait ==
    /\ cfg \in WaitCfgs
    /\ pc = "open_file"
    /\ todo = <<>>
    /\ current_state = STATE_TEST_LOGIC_RESET
    /\ hw_state \in {STATE_TEST_LOGIC_RESET, STATE_SHIFT_DR}
    /\ tms_line = 0
    /\ go_active = FALSE
    /\ go_from = current_state
    /\ go_target = current_state
    /\ go_acks = <<>>
    /\ go_tms = <<>>
    /\ go_xfers = 0
    /\ shift_log = <<>>
    /\ last_call = NoCall
    /\ DeviceIdle
    /\ MainIdle
    /\ busy_left \in {NeverReady} \cup (0..MaxBusyReads)
    /\ mpsse = MpsseUp
    /\ buf = NoBuf

\* the program is one thread that keeps executing until it exits
SpecWaitFair == InitWait /\ [][Next]_vars /\ WF_vars(Next)

----------------------------------------------------------------------------
(* mpsse.c: the transport on its own: mpsse_init, transfers, close, abort *)

\* how many mpsse_xfer calls a run of the transport makes
MaxXfers == 2

\* how many times in a row ftdi_read_data may return no data
MaxZeroReads == 1

\* mpsse_error closing the device and restoring the latency timer whether or
\* not the device was opened and the timer set
mpsse_error_unguarded(m, status) ==
    /\ mpsse' = [m EXCEPT !.pc = "exited", !.restored = @ + 1,
                          !.usb_closed = @ + 1, !.deinit = @ + 1]
    /\ exit_status' = status

\* mpsse_error(status): restore the latency timer if it was set, close the
\* device if it was opened, ftdi_deinit, exit(status)
mpsse_error(m, status) ==
    /\ mpsse' = [m EXCEPT !.pc = "exited",
                          !.restored = @ + (IF m.open /\ m.latency_set THEN 1 ELSE 0),
                          !.usb_closed = @ + (IF m.open THEN 1 ELSE 0),
                          !.deinit = @ + 1]
    /\ exit_status' = status

\* everything but the transport and the exit status
nontransport == <<cfg, buf, pc, todo, tapvars, devvars, device_type, file_size, f_pos, rc, addr,
                  block_offset, erase_addr, count, wait_ret, wait_polls, data1,
                  busy_left, obs>>

\* one checked libftdi call of mpsse_init that changes no flag
InitCall(to) ==
    /\ \E ok \in BOOLEAN :
         IF ok THEN mpsse' = [mpsse EXCEPT !.pc = to] /\ UNCHANGED exit_status
               ELSE mpsse_error([mpsse EXCEPT !.fault = "init"], 2)
    /\ UNCHANGED nontransport

\* ftdi_usb_open_string / ftdi_usb_open, then mpsse_ftdic_open = true
mpsse_init_open ==
    /\ mpsse.pc = "open"
    /\ \E ok \in BOOLEAN :
         IF ok THEN mpsse' = [mpsse EXCEPT !.pc = "reset", !.open = TRUE]
                    /\ UNCHANGED exit_status
               ELSE mpsse_error([mpsse EXCEPT !.fault = "init"], 2)
    /\ UNCHANGED nontransport

mpsse_init_reset ==
    /\ mpsse.pc = "reset"
    /\ InitCall("purge")

mpsse_init_purge ==
    /\ mpsse.pc = "purge"
    /\ InitCall("get_latency")

mpsse_init_get_latency ==
    /\ mpsse.pc = "get_latency"
    /\ InitCall("set_latency")


\* ftdi_set_latency_timer(1), then mpsse_ftdic_latency_set = true
mpsse_init_set_latency ==
    /\ mpsse.pc = "set_latency"
    /\ \E ok \in BOOLEAN :
         IF ok THEN mpsse' = [mpsse EXCEPT !.pc = "set_bitmode", !.latency_set = TRUE]
                    /\ UNCHANGED exit_status
               ELSE mpsse_error([mpsse EXCEPT !.fault = "init"], 2)
    /\ UNCHANGED nontransport

mpsse_init_set_bitmode ==
    /\ mpsse.pc = "set_bitmode"
    /\ InitCall("purge2")

mpsse_init_purge2 ==
    /\ mpsse.pc = "purge2"
    /\ InitCall("send")


\* mpsse_send_byte: one of the seven set-up bytes of mpsse_init
mpsse_send_byte ==
    /\ mpsse.pc = "send"
    /\ \E wr \in {-1, 0, 1} :
         LET m == [mpsse EXCEPT !.io = @ + 1]
         IN  IF wr # 1
             THEN mpsse_error([m EXCEPT !.fault = "short_write"], 2)
             ELSE /\ mpsse' = [m EXCEPT !.sent = @ + 1,
                                        !.pc = IF m.sent + 1 = 7 THEN "idle" ELSE "send"]
                  /\ UNCHANGED exit_status
    /\ UNCHANGED nontransport

\* where mpsse_xfer continues after its write part
AfterWrite(m) ==
    IF m.receive_length # 0 THEN [m EXCEPT !.pc = "read", !.rx_len = 0]
    ELSE [m EXCEPT !.pc = "idle", !.xfers = @ + 1]

\* a call of mpsse_xfer(data_buffer, send_length, receive_length)
mpsse_xfer_call ==
    /\ mpsse.pc = "idle"
    /\ mpsse.xfers < MaxXfers
    /\ \E sl \in {0, 3}, rl \in {0, 1, 2, 3} :
         LET m == [mpsse EXCEPT !.send_length = sl, !.receive_length = rl,
                                !.rx_len = 0, !.zero_reads = 0, !.stored = {}]
         IN  mpsse' = IF sl # 0 THEN [m EXCEPT !.pc = "write"] ELSE AfterWrite(m)
    /\ UNCHANGED exit_status
    /\ UNCHANGED nontransport

\* rc = ftdi_write_data(..., send_length); if (rc != send_length) mpsse_error(2)
mpsse_xfer_write ==
    /\ mpsse.pc = "write"
    /\ \E wr \in -1..mpsse.send_length :
         LET m == [mpsse EXCEPT !.io = @ + 1]
         IN  IF wr # m.send_length
             THEN mpsse_error([m EXCEPT !.fault = "short_write"], 2)
             ELSE mpsse' = AfterWrite(m) /\ UNCHANGED exit_status
    /\ UNCHANGED nontransport

\* the receive loop storing every read at the start of the buffer
rx_offset_start(m) == 0

\* data_buffer + rx_len: where in the buffer the next read is stored
rx_offset(m) == m.rx_len

\* one iteration of the receive loop: a negative return aborts, anything else
\* is stored at data_buffer + rx_len and added to rx_len (stored: the buffer
\* positions written by this call)
mpsse_xfer_read ==
    /\ mpsse.pc = "read"
    /\ \E rd \in -1..(mpsse.receive_length - mpsse.rx_len) :
         LET m == [mpsse EXCEPT !.io = @ + 1]
         IN  /\ rd = 0 => m.zero_reads < MaxZeroReads
             /\ IF rd < 0
                THEN mpsse_error([m EXCEPT !.fault = "read_error"], 2)
                ELSE /\ mpsse' =
                          LET n == [m EXCEPT !.rx_len = @ + rd,
                                             !.stored = @ \cup {rx_offset(m) + k : k \in 0..(rd - 1)},
                                             !.zero_reads = IF rd = 0 THEN @ + 1 ELSE 0]
                          IN  IF n.rx_len # n.receive_length THEN n
                              ELSE [n EXCEPT !.pc = "idle", !.xfers = @ + 1]
                     /\ UNCHANGED exit_status
    /\ UNCHANGED nontransport

\* mpsse_recv_byte: read one byte, retrying while nothing has arrived
mpsse_recv_byte ==
    /\ \/ mpsse.pc = "idle" /\ mpsse.xfers < MaxXfers
       \/ mpsse.pc = "recv"
    /\ \E rd \in {-1, 0, 1} :
         LET m == [mpsse EXCEPT !.io = @ + 1,
                                !.zero_reads = IF mpsse.pc = "idle" THEN 0 ELSE @]
         IN  /\ rd = 0 => m.zero_reads < MaxZeroReads
             /\ IF rd < 0
                THEN mpsse_error([m EXCEPT !.fault = "read_error"], 2)
                ELSE /\ mpsse' = IF rd = 1
                                 THEN [m EXCEPT !.pc = "idle", !.xfers = @ + 1]
                                 ELSE [m EXCEPT !.pc = "recv", !.zero_reads = @ + 1]
                     /\ UNCHANGED exit_status
    /\ UNCHANGED nontransport

\* mpsse_close: restore the latency timer, close the device, ftdi_deinit
mpsse_close ==
    /\ mpsse.pc = "idle"
    /\ mpsse' = [mpsse EXCEPT !.pc = "closed", !.restored = @ + 1,
                              !.usb_closed = @ + 1, !.deinit = @ + 1]
    /\ UNCHANGED exit_status
    /\ UNCHANGED nontransport

InitMpsse ==
    /\ cfg = NoCfg
    /\ pc = "mpsse"
    /\ todo = <<>>
    /\ current_state = STATE_TEST_LOGIC_RESET
    /\ hw_state \in TapStates
    /\ tms_line = 0
    /\ go_active = FALSE
    /\ go_from = current_state
    /\ go_target = current_state
    /\ go_acks = <<>>
    /\ go_tms = <<>>
    /\ go_xfers = 0
    /\ shift_log = <<>>
    /\ last_call = NoCall
    /\ DeviceIdle
    /\ MainIdle
    /\ busy_left = 0
    /\ mpsse = [MpsseUp EXCEPT !.pc = "open", !.open = FALSE, !.latency_set = FALSE,
                               !.sent = 0]
    /\ buf = NoBuf

NextMpsse ==
    \/ mpsse_init_open
    \/ mpsse_init_reset
    \/ mpsse_init_purge
    \/ mpsse_init_get_latency
    \/ mpsse_init_set_latency
    \/ mpsse_init_set_bitmode
    \/ mpsse_init_purge2
    \/ mpsse_send_byte
    \/ mpsse_xfer_call
    \/ mpsse_xfer_write
    \/ mpsse_xfer_read
    \/ mpsse_recv_byte
    \/ mpsse_close

SpecMpsse == InitMpsse /\ [][NextMpsse]_vars

----------------------------------------------------------------------------
(* jtag_tap_shift on its own, at the level of its buffers: the bit-queued
   implementation of src/jtag_tap.c and the byte-batched one of
   src/unnamed/part_000, over a loopback transport *)

\* shift lengths in bits: one bit, part of a byte, whole bytes, around the
\* wrap of the 8-bit rx_cnt and around the end of data[1024]
ShiftLens == {1, 2, 7, 8, 12, 16, 32, 64, 255, 256, 264, 341, 342, 2048}

\* uint32_t byte_count = (data_bits + 7) / 8
ByteCount(data_bits) == (data_bits + 7) \div 8

\* the pattern buffers handed to the shift
Pattern(seed, data_bits) ==
    [i \in 1..ByteCount(data_bits) |-> (seed + 37 * i) % 256]

\* a separate output buffer before the call
Blank(data_bits) == [i \in 1..ByteCount(data_bits) |-> 0]

\* bit k (from 0) of a buffer, least significant bit of each byte first:
\* byte_out & 1, byte_out >>= 1
TdiBit(b, k) == Shr(b[k \div 8 + 1], k % 8) % 2

\* the first n bits held by a buffer
BitsOf(b, n) == [k \in 0..(n - 1) |-> TdiBit(b, k)]

\* the byte the FTDI returns for the bit command that clocked bit k: its
\* input shift register, the newest bit on top, older bits below it
FtdiByte(tdo, k) ==
      (IF k >= 7 THEN tdo[k - 7] ELSE 0)
    + (IF k >= 6 THEN tdo[k - 6] * 2 ELSE 0)
    + (IF k >= 5 THEN tdo[k - 5] * 4 ELSE 0)
    + (IF k >= 4 THEN tdo[k - 4] * 8 ELSE 0)
    + (IF k >= 3 THEN tdo[k - 3] * 16 ELSE 0)
    + (IF k >= 2 THEN tdo[k - 2] * 32 ELSE 0)
    + (IF k >= 1 THEN tdo[k - 1] * 64 ELSE 0)
    + tdo[k] * 128

\* the byte a byte-mode read returns for byte i (from 0): eight bits, first
\* bit lowest
FtdiWholeByte(tdo, i) ==
      tdo[8 * i]          + tdo[8 * i + 1] * 2  + tdo[8 * i + 2] * 4
    + tdo[8 * i + 3] * 8  + tdo[8 * i + 4] * 16 + tdo[8 * i + 5] * 32
    + tdo[8 * i + 6] * 64 + tdo[8 * i + 7] * 128

\* tdo_byte |= tdo << j over the bits first .. last
RECURSIVE TdoByte(_, _, _)
TdoByte(tdo, first, last) ==
    IF first > last THEN 0
    ELSE tdo[first] + 2 * TdoByte(tdo, first + 1, last)

\* uint8_t data[1024]: three bytes are queued per bit
DataSize == 1024

\* for (i = 0; i < rx_cnt/8; i++) output_data[i] = data[7+i*8]
copied(rx) == rx \div 8

\* nothing shifted yet, output_data pointing at the buffer out
BeforeShift(out) ==
    [data_bits |-> 0, must_end |-> FALSE, from |-> 0, hw_from |-> 0,
     acks |-> <<>>, tx_len |-> 0, rx_cnt |-> 0, input |-> <<>>,
     impl |-> "", tms_ones |-> {}, overflow |-> FALSE, out |-> out]

\* what TDO returns while the bytes d are shifted in: the bytes themselves
\* over a loopback transport, the byte the flash holds its output at when a
\* flash is attached (buf.miso)
TdoBytes(d) ==
    IF "miso" \in DOMAIN buf THEN [i \in 1..Len(d) |-> buf.miso] ELSE d

\* the bit-queued jtag_tap_shift: per bit a three-byte command at *ptr++ and
\* rx_cnt++, one jtag_state_ack(1) at the last bit if must_end, then
\* mpsse_xfer(data, ptr - data, rx_cnt) and the copy of every 8th response.
\* Queueing more than DataSize bytes writes past data[]: the outcome is then
\* any mirror state, either TMS stream, and the output written or not.
jtag_tap_shift_queued ==
    /\ pc \in {"shift", "spi_shift"}
    /\ HeadIs("shift")
    /\ Head(todo).fn # "part_000"
    /\ LET c         == Head(todo)
           data_bits == c.arg
           acks      == shift_acks(data_bits, c.must_end)
           rx        == data_bits % 256
           tdo       == BitsOf(TdoBytes(c.data), data_bits)
           out       == [i \in 1..ByteCount(data_bits) |->
                            IF i - 1 < copied(rx) THEN FtdiByte(tdo, 7 + (i - 1) * 8)
                            ELSE shift_log.out[i]]
           log       == [shift_log EXCEPT !.data_bits = data_bits,
                                          !.must_end = c.must_end,
                                          !.from = current_state,
                                          !.hw_from = hw_state,
                                          !.acks = acks,
                                          !.tx_len = 3 * data_bits,
                                          !.rx_cnt = rx,
                                          !.input = c.data,
                                          !.impl = c.fn]
       IN  IF 3 * data_bits <= DataSize
           THEN /\ current_state' = ack_all(current_state, acks)
                /\ hw_state' = ShiftHw(hw_state, data_bits, acks)
                /\ tms_line' = Len(acks)
                /\ shift_log' = [log EXCEPT !.out = out,
                                            !.tms_ones = IF acks # <<>> THEN {data_bits} ELSE {}]
           ELSE /\ current_state' \in TapStates
                /\ hw_state' = ShiftHw(hw_state, data_bits, acks)
                /\ tms_line' = Len(acks)
                /\ \E o \in {out, shift_log.out}, t \in {{}, {data_bits}} :
                     shift_log' = [log EXCEPT !.out = o, !.tms_ones = t, !.overflow = TRUE]
    /\ todo' = Tail(todo)
    /\ pc' = IF pc = "shift" THEN "shifted" ELSE "spi_return"
    /\ last_call' = Head(todo)
    /\ UNCHANGED <<cfg, mpsse, buf, go_active, go_from, go_target, go_acks, go_tms, go_xfers,
                   devvars, mainvars>>

\* what the byte-batched jtag_tap_shift leaves in output_data over a
\* loopback: output_data[i] = mpsse_recv_byte() for the first byte_count - 1
\* bytes, then tdo_byte |= tdo << j for the bits of the last one
batched_out(input, data_bits) ==
    LET byte_count == ByteCount(data_bits)
        tdo        == BitsOf(input, data_bits)
    IN  [i \in 1..byte_count |->
            IF i < byte_count THEN FtdiWholeByte(tdo, i - 1)
            ELSE TdoByte(tdo, 8 * (byte_count - 1), data_bits - 1)]

\* the byte-batched jtag_tap_shift: the first byte_count - 1 bytes go out in
\* one byte-mode command with TMS left as it is, each answered by one
\* mpsse_recv_byte; the bits of the last byte go out one command each, the
\* last of them with TMS high and one jtag_state_ack(1) if must_end
jtag_tap_shift_batched ==
    /\ pc = "shift"
    /\ HeadIs("shift")
    /\ Head(todo).fn = "part_000"
    /\ LET c          == Head(todo)
           data_bits  == c.arg
           byte_count == ByteCount(data_bits)
           whole      == 8 * (byte_count - 1)
           acks       == shift_acks(data_bits, c.must_end)
           out        == batched_out(c.data, data_bits)
           held       == hw_clock_held(hw_state, tms_line, whole)
       IN  /\ current_state' = ack_all(current_state, acks)
           /\ hw_state' = ShiftHw(held, data_bits - whole, acks)
           /\ tms_line' = Len(acks)
           /\ shift_log' = [shift_log EXCEPT
                              !.data_bits = data_bits, !.must_end = c.must_end,
                              !.from = current_state, !.hw_from = hw_state,
                              !.acks = acks,
                              !.tx_len = (IF byte_count > 1 THEN 3 + (byte_count - 1) ELSE 0)
                                         + 3 * (data_bits - whole),
                              !.rx_cnt = (byte_count - 1) + (data_bits - whole),
                              !.input = c.data, !.impl = c.fn, !.out = out,
                              !.tms_ones = (IF tms_line = 1 THEN 1..whole ELSE {})
                                           \cup (IF acks # <<>> THEN {data_bits} ELSE {})]
    /\ todo' = Tail(todo)
    /\ pc' = "shifted"
    /\ last_call' = Head(todo)
    /\ UNCHANGED <<cfg, mpsse, buf, go_active, go_from, go_target, go_acks, go_tms, go_xfers,
                   devvars, mainvars>>

\* one call of either implementation, the controller in the state the mirror
\* names and TMS low as the walk into a shift state leaves it
InitShift ==
    /\ cfg = NoCfg
    /\ pc = "shift"
    /\ \E n \in ShiftLens, e \in BOOLEAN, seed \in {1, 90},
          f \in {"jtag_tap.c", "part_000"}, aliased \in BOOLEAN :
         /\ todo = <<[op |-> "shift", arg |-> n, must_end |-> e,
                      data |-> Pattern(seed, n), fn |-> f]>>
         /\ shift_log = BeforeShift(IF aliased THEN Pattern(seed, n) ELSE Blank(n))
    /\ current_state \in {STATE_SHIFT_DR, STATE_SHIFT_IR}
    /\ hw_state = current_state
    /\ tms_line = 0
    /\ go_active = FALSE
    /\ go_from = current_state
    /\ go_target = current_state
    /\ go_acks = <<>>
    /\ go_tms = <<>>
    /\ go_xfers = 0
    /\ last_call = NoCall
    /\ DeviceIdle
    /\ MainIdle
    /\ busy_left = 0
    /\ mpsse = MpsseUp
    /\ buf = NoBuf

NextShift ==
    \/ jtag_tap_shift_queued
    \/ jtag_tap_shift_batched

SpecShift == InitShift /\ [][NextShift]_vars

----------------------------------------------------------------------------
(* ecpprog.c: xfer_spi and send_spi on their own, two calls on one buffer
   over a loopback transport *)

\* buffer lengths in bytes: one byte, a few, and the most whose bit commands
\* fit data[]
SpiLens == {1, 3, 42}

\* the first reversal loop, then the calls xfer_spi makes; the shift is
\* handed the buffer as input and as output
xfer_spi_call ==
    /\ pc = "spi"
    /\ todo = <<>>
    /\ Len(buf.done) < 2
    /\ todo' = xfer_spi(buf.data, buf.len)
    /\ buf' = [buf EXCEPT !.data = Reversed(buf.data), !.entry = current_state]
    /\ shift_log' = BeforeShift(Reversed(buf.data))
    /\ go_tms' = <<>>
    /\ go_xfers' = 0
    /\ pc' = "spi_shift"
    /\ UNCHANGED <<cfg, mpsse, current_state, hw_state, tms_line, go_active, go_from,
                   go_target, go_acks, last_call, devvars, mainvars>>

\* the same for send_spi
send_spi_call ==
    /\ pc = "spi"
    /\ todo = <<>>
    /\ Len(buf.done) < 2
    /\ todo' = send_spi(buf.data, buf.len)
    /\ buf' = [buf EXCEPT !.data = Reversed(buf.data), !.entry = current_state]
    /\ shift_log' = BeforeShift(Reversed(buf.data))
    /\ go_tms' = <<>>
    /\ go_xfers' = 0
    /\ pc' = "spi_shift"
    /\ UNCHANGED <<cfg, mpsse, current_state, hw_state, tms_line, go_active, go_from,
                   go_target, go_acks, last_call, devvars, mainvars>>

\* the second reversal loop of xfer_spi, over what the shift left in the
\* buffer
xfer_spi_return ==
    /\ pc = "spi_return"
    /\ last_call.fn = "xfer_spi"
    /\ buf' = [buf EXCEPT !.data = Reversed(shift_log.out), !.done = Append(@, "xfer_spi")]
    /\ pc' = "spi"
    /\ UNCHANGED <<cfg, mpsse, todo, tapvars, devvars, mainvars>>

\* the second reversal loop of send_spi
send_spi_return ==
    /\ pc = "spi_return"
    /\ last_call.fn = "send_spi"
    /\ buf' = [buf EXCEPT !.data = Reversed(shift_log.out), !.done = Append(@, "send_spi")]
    /\ pc' = "spi"
    /\ UNCHANGED <<cfg, mpsse, todo, tapvars, devvars, mainvars>>

\* one-byte buffers of every value from three states, longer buffers from
\* every state of the controller
InitSpi ==
    /\ cfg = NoCfg
    /\ pc = "spi"
    /\ todo = <<>>
    /\ \E n \in SpiLens, seed \in 0..255 :
         /\ \/ n = 1 /\ current_state \in {STATE_RUN_TEST_IDLE, STATE_SHIFT_DR, STATE_EXIT1_DR}
            \/ seed \in {1, 90} /\ current_state \in TapStates
         /\ buf = [orig |-> Pattern(seed, 8 * n), data |-> Pattern(seed, 8 * n),
                   len |-> n, done |-> <<>>, entry |-> current_state]
    /\ shift_log = BeforeShift(<<>>)
    /\ hw_state = current_state
    /\ tms_line = 0
    /\ go_active = FALSE
    /\ go_from = current_state
    /\ go_target = current_state
    /\ go_acks = <<>>
    /\ go_tms = <<>>
    /\ go_xfers = 0
    /\ last_call = NoCall
    /\ DeviceIdle
    /\ MainIdle
    /\ busy_left = 0
    /\ mpsse = MpsseUp

NextSpi ==
    \/ xfer_spi_call
    \/ send_spi_call
    \/ xfer_spi_enter
    \/ jtag_go_to_state_step
    \/ jtag_go_to_state_return
    \/ jtag_tap_shift_queued
    \/ xfer_spi_return
    \/ send_spi_return

SpecSpi == InitSpi /\ [][NextSpi]_vars

----------------------------------------------------------------------------
(* main from the end of option parsing to jtag_init, on every combination of
   options, number of file arguments and outcome of fopen *)

MaxFileArgs == 2

OptCfgs ==
    { [DefaultCfg EXCEPT !.read_mode = r, !.erase_mode = e, !.check_mode = c,
                         !.prog_sram = s, !.test_mode = t, !.bulk_erase = b,
                         !.dont_erase = n, !.disable_protect = p,
                         !.interleaved_verify = l, !.rw_offset = o,
                         !.file_args = a, !.can_open = f, !.file_len = 3] :
        r \in BOOLEAN, e \in BOOLEAN, c \in BOOLEAN, s \in BOOLEAN, t \in BOOLEAN,
        b \in BOOLEAN, n \in BOOLEAN, p \in BOOLEAN, l \in BOOLEAN,
        o \in {0, 4096}, a \in 0..MaxFileArgs, f \in BOOLEAN }

InitOpts ==
    /\ cfg \in OptCfgs
    /\ pc = "options"
    /\ todo = <<>>
    /\ current_state = STATE_TEST_LOGIC_RESET
    /\ hw_state \in {STATE_TEST_LOGIC_RESET, STATE_SHIFT_DR}
    /\ tms_line = 0
    /\ go_active = FALSE
    /\ go_from = current_state
    /\ go_target = current_state
    /\ go_acks = <<>>
    /\ go_tms = <<>>
    /\ go_xfers = 0
    /\ shift_log = <<>>
    /\ last_call = NoCall
    /\ DeviceIdle
    /\ MainIdle
    /\ busy_left = MaxBusyReads
    /\ mpsse = MpsseUp
    /\ buf = NoBuf

NextOpts ==
    \/ main_check_options
    \/ main_check_filename
    \/ main_open_file_fails
    \/ main_open_file
    \/ main_jtag_init
    \/ jtag_go_to_state_reset

SpecOpts == InitOpts /\ [][NextOpts]_vars

----------------------------------------------------------------------------
(* Claims about TAP navigation *)

\* the TMS bits a walk from s to target `state` emits when every step takes
\* bit `state` of tms_map[current] and advances through tms_transitions
RECURSIVE WalkBits(_, _, _)
WalkBits(s, state, fuel) ==
    IF s = state \/ fuel = 0 THEN <<>>
    ELSE LET b == Shr(tms_map[s], state) % 2
             n == IF b = 1 THEN Shr(tms_transitions[s], 4) % 16 ELSE tms_transitions[s] % 16
         IN  <<b>> \o WalkBits(n, state, fuel - 1)

\* C1: for every start state s and every target t other than Test-Logic-Reset,
\* jtag_go_to_state(t) terminates with the mirror equal to t; every loop
\* iteration emitted one TMS bit, bit t of tms_map[current], and advanced
\* the mirror through tms_transitions with that bit.
C1_GoToStateReachesTarget ==
    (HeadIs("go") /\ Head(todo).arg # STATE_TEST_LOGIC_RESET)
      ~> (/\ GoReturned
          /\ go_target # STATE_TEST_LOGIC_RESET
          /\ current_state = go_target
          /\ go_tms = WalkBits(go_from, go_target, MaxGoSteps)
          /\ go_acks = go_tms
          /\ go_xfers = Len(go_tms)
          /\ hw_state = current_state)

\* a call to a target six or more hops away has returned
C1_Witness ==
    /\ GoReturned
    /\ go_target = STATE_SHIFT_IR
    /\ go_from = STATE_PAUSE_DR
    /\ current_state = STATE_SHIFT_IR
    /\ Len(go_tms) = 6

\* C2 as stated: for all pairs (s, t), go_to_state terminates in at most 6
\* advance calls and leaves the current state equal to t.
C2_AtMostSixAdvances ==
    /\ Len(go_acks) <= 6
    /\ GoReturned => current_state = go_target

\* C2 amended: for all pairs (s, t), go_to_state terminates in at most 8
\* advance calls and leaves the current state equal to t.
C2_AtMostEightAdvances ==
    /\ Len(go_acks) <= 8
    /\ GoReturned => current_state = go_target

\* the longest walk: Capture-DR to Exit2-IR takes eight advance calls
C2_Witness ==
    /\ GoReturned
    /\ go_from = STATE_CAPTURE_DR
    /\ go_target = STATE_EXIT2_IR
    /\ current_state = STATE_EXIT2_IR
    /\ Len(go_acks) = 8

\* C3: jtag_go_to_state(Test-Logic-Reset) from any state sends one TMS
\* command of five one-bits, acknowledges TMS=1 five times, and ends with the
\* mirror in Test-Logic-Reset.
C3_ResetFivePulses ==
    (GoReturned /\ go_target = STATE_TEST_LOGIC_RESET) =>
        /\ go_tms = <<1, 1, 1, 1, 1>>
        /\ go_xfers = 1
        /\ go_acks = <<1, 1, 1, 1, 1>>
        /\ current_state = STATE_TEST_LOGIC_RESET

\* a reset issued from Shift-DR, the state farthest from Test-Logic-Reset
C3_Witness ==
    /\ GoReturned
    /\ go_target = STATE_TEST_LOGIC_RESET
    /\ go_from = STATE_SHIFT_DR
    /\ go_tms = <<1, 1, 1, 1, 1>>
    /\ current_state = STATE_TEST_LOGIC_RESET

----------------------------------------------------------------------------
(* Claims about whole runs *)

\* at least one MPSSE transfer has completed
TransferDone == go_xfers > 0 \/ shift_log # <<>>

\* C4: in every run, after each completed transfer the mirror equals the
\* state of the hardware TAP controller, which steps through the transition
\* table on every clocked TMS bit (SRAM programming included).
C4_MirrorEqualsHardware ==
    TransferDone => current_state = hw_state

\* the run erases block by block
BlockEraseRun ==
    /\ ~cfg.test_mode /\ ~cfg.prog_sram /\ ~cfg.read_mode /\ ~cfg.check_mode
    /\ ~cfg.dont_erase /\ ~cfg.bulk_erase

\* main has left the erase section
EraseDone ==
    \/ pc \in {"program", "prog_read", "prog_page", "prog_page_next", "prog_compare",
               "prog_chunk_next", "read_verify", "read_loop", "read_fwrite", "verify_loop",
               "verify_compare", "reinitialize", "bye", "exit"}
    \/ /\ pc \in {"flash_wait", "flash_wait_check"}
       /\ wait_ret \in {"prog_page_next", "prog_compare"}

FloorTo(x, B) == (x \div B) * B
CeilTo(x, B)  == ((x + B - 1) \div B) * B

\* one erase per block of [floor(o, B), ceil(o + n, B)), ascending, with the
\* opcode of the block size
ExpectedErases(o, n, k) ==
    LET B   == k * 1024
        opc == IF k = 4 THEN 32 ELSE IF k = 32 THEN 82 ELSE 216
    IN  [i \in 1..((CeilTo(o + n, B) - FloorTo(o, B)) \div B) |->
            [op |-> opc, addr |-> FloorTo(o, B) + (i - 1) * B]]

IsPrefix(p, q) == Len(p) <= Len(q) /\ p = SubSeq(q, 1, Len(p))

\* C5: in block erase mode with block size B of 4, 32 or 64 KiB, offset o
\* and length n, the erase commands issued are exactly one per block address
\* from floor(o, B) up to but below ceil(o + n, B), ascending, each with the
\* opcode of B (0x20, 0x52, 0xD8); o = 0, n = 99302, B = 64 KiB erases
\* 0x000000 and 0x010000, and o = 1 MiB, n = 294312 erases 0x100000 to
\* 0x140000 in five commands.
C5_BlockEraseRange ==
    BlockEraseRun =>
        /\ IsPrefix(erase_log, ExpectedErases(cfg.rw_offset, file_size, cfg.erase_block_size))
        /\ EraseDone =>
             /\ erase_log = ExpectedErases(cfg.rw_offset, file_size, cfg.erase_block_size)
             /\ (cfg.rw_offset = 0 /\ file_size = 99302 /\ cfg.erase_block_size = 64)
                  => erase_log = <<[op |-> 216, addr |-> 0], [op |-> 216, addr |-> 65536]>>
             /\ (cfg.rw_offset = 1048576 /\ file_size = 294312 /\ cfg.erase_block_size = 64)
                  => erase_log = [i \in 1..5 |-> [op |-> 216, addr |-> 1048576 + (i - 1) * 65536]]

\* the five 64 KiB erases of 294312 bytes at 1 MiB have been issued
C5_Witness ==
    /\ BlockEraseRun /\ EraseDone
    /\ cfg.rw_offset = 1048576 /\ file_size = 294312 /\ cfg.erase_block_size = 64
    /\ Len(erase_log) = 5
    /\ erase_log[5] = [op |-> 216, addr |-> 1310720]

\* offset 0x00F000, length 0x2000, 64 KiB blocks
C6_Case ==
    /\ BlockEraseRun
    /\ cfg.rw_offset = 61440 /\ file_size = 8192 /\ cfg.erase_block_size = 64

\* C6 as stated: for offset 0x00F000, length 0x2000 and 64 KiB blocks the
\* erase range is exactly [0x000000, 0x010000): one block erase is issued.
C6_RangeIsOneBlock ==
    (C6_Case /\ EraseDone) =>
        /\ begin_addr = 0
        /\ end_addr = 65536
        /\ erase_log = <<[op |-> FC_BE64, addr |-> 0]>>

\* C6 amended: for offset 0x00F000, length 0x2000 and 64 KiB blocks the
\* erase range is exactly [0x000000, 0x020000): two block erases are issued,
\* at 0x000000 and at 0x010000.
C6_RangeIsTwoBlocks ==
    (C6_Case /\ EraseDone) =>
        /\ begin_addr = 0
        /\ end_addr = 131072
        /\ erase_log = <<[op |-> FC_BE64, addr |-> 0], [op |-> FC_BE64, addr |-> 65536]>>

\* the erase section has been left in the case of C6, after two erases
C6_Witness ==
    /\ C6_Case /\ EraseDone
    /\ Len(erase_log) = 2

\* C7: every page-program command, with start address a and data length w,
\* has 1 <= w <= 256 and (a mod 256) + w <= 256, for every offset and file
\* length, on both sides of the seam between two 8192-byte chunks too.
C7_PageProgramWithinPage ==
    \A i \in 1..Len(prog_log) :
        /\ 1 <= prog_log[i].n
        /\ prog_log[i].n <= 256
        /\ (prog_log[i].addr % 256) + prog_log[i].n <= 256

\* the two segments at the seam of a file programmed at offset 254: the last
\* of the first chunk and the first of the second
C7_Witness ==
    /\ cfg.rw_offset = 254
    /\ \E i \in 1..Len(prog_log) :
         /\ i < Len(prog_log)
         /\ prog_log[i] = [addr |-> 8192, n |-> 254]
         /\ prog_log[i + 1] = [addr |-> 8446, n |-> 2]

\* main has left the programming loop without a verify failure
ProgramDone ==
    pc \in {"read_verify", "read_loop", "read_fwrite", "verify_loop", "verify_compare",
            "reinitialize", "bye"}

\* C8: a program request starting at 0x0FE (ending at 0x142, or at 0x241 as
\* the stated lengths add up to) is split into page programs of 0x02 bytes
\* at 0x0FE, 0x100 bytes at 0x100 and 0x42 bytes at 0x200.
C8_SegmentsAsStated ==
    (/\ ~cfg.test_mode /\ ~cfg.prog_sram /\ ~cfg.read_mode /\ ~cfg.check_mode
     /\ ~cfg.erase_mode
     /\ cfg.rw_offset = 254
     /\ cfg.file_len \in {69, 324}
     /\ ProgramDone)
    => prog_log = <<[addr |-> 254, n |-> 2], [addr |-> 256, n |-> 256], [addr |-> 512, n |-> 66]>>

\* C9: every erase command, every page program and the status register
\* write of -p is preceded by a write enable of its own, sent after the
\* previous erase, program or status write, with nothing but status reads
\* in between.
C9_WriteEnableBeforeEveryWrite ==
    spi_last.op \in WriteOps => spi_last.armed

\* the third page program of a verbose run, whose write enable is followed
\* by status reads
C9_Witness ==
    /\ cfg.verbose
    /\ spi_last.op = FC_PP
    /\ spi_last.armed
    /\ Len(prog_log) = 3

\* the last flash_wait entered has returned
FlashWaitReturned == wait_ret # "" /\ pc \notin {"flash_wait", "flash_wait_check"}

\* C10: flash_wait returns only when the three most recent polls read the
\* busy bit clear; a poll that reads busy sets the count back to zero, and
\* flash_wait never returns after fewer than three polls.
C10_ThreeClearPolls ==
    /\ FlashWaitReturned =>
         /\ Len(wait_polls) >= 3
         /\ TrailingClears(wait_polls) >= 3
    /\ pc \in {"flash_wait", "flash_wait_check"} =>
         /\ count = TrailingClears(wait_polls)
         /\ count <= 2

\* a flash_wait that read busy after two clear reads and returned three
\* clear reads later
C10_Witness ==
    /\ FlashWaitReturned
    /\ wait_polls = <<0, 0, 1, 0, 0, 0>>

\* commands that must not follow a write the flash may still be busy with
GatedOps == WriteOps \cup {FC_WE, FC_RD}

\* C11: after every erase command, every page program and the status
\* register write, flash_wait runs to completion before any further write
\* enable, erase, program or read-data command is issued.
C11_WaitBeforeNextCommand ==
    /\ spi_last.op \in GatedOps => ~spi_last.owed
    /\ (spi_cs.head # <<>> /\ spi_cs.head[1] \in GatedOps) => ~wait_owed

\* the write enable that follows the first block erase and its flash_wait
C11_Witness ==
    /\ spi_last.op = FC_WE
    /\ ~spi_last.owed
    /\ Len(erase_log) = 1
    /\ erase_log[1].op \in {FC_SE, FC_BE32, FC_BE64}
    /\ ~wait_owed

\* C12: in deferred and in interleaved verify, a compared block that differs
\* ends the run through jtag_error(3) with exit status 3, which is not the
\* transport failure status 2; VERIFY OK is not reported and no erase or
\* program command is issued afterwards; if no block differs the run reaches
\* the normal exit with status 0.
C12_VerifyMismatchExits3 ==
    /\ [](/\ obs.differ => (exit_status = 3 /\ exit_status # 2 /\ pc = "exit"
                            /\ todo = <<>> /\ ~obs.verify_ok)
          /\ (pc = "exit" /\ ~obs.differ) => exit_status = 0
          /\ obs.verify_ok => ~obs.differ)
    /\ [][obs.differ => (erase_log' = erase_log /\ prog_log' = prog_log /\ pc' = pc)]_vars

\* an interleaved verify that found the first chunk of a two-chunk file
\* different: the second chunk is never programmed
C12_Witness ==
    /\ obs.differ
    /\ exit_status = 3
    /\ cfg.interleaved_verify
    /\ cfg.file_len > read_blocksize
    /\ addr = 0
    /\ prog_log # <<>>

\* C13: a transport write that transfers another byte count than requested,
\* or a transport read that returns a negative code, aborts the process with
\* exit status 2; no transport read or write follows; the abort restores the
\* latency timer only if it had been set and closes the USB device only if
\* it had been opened.
C13_TransportErrorAborts ==
    /\ [](/\ mpsse.fault \in {"short_write", "read_error"} =>
               (mpsse.pc = "exited" /\ exit_status = 2)
          /\ mpsse.pc = "exited" =>
               /\ exit_status = 2
               /\ mpsse.restored = (IF mpsse.latency_set THEN 1 ELSE 0)
               /\ mpsse.usb_closed = (IF mpsse.open THEN 1 ELSE 0)
               /\ mpsse.latency_set => mpsse.open)
    /\ [][mpsse.pc = "exited" => mpsse' = mpsse]_vars

\* a read error after one of the two bytes asked for has arrived: the abort
\* restores the latency timer and closes the device once each
C13_Witness ==
    /\ mpsse.pc = "exited"
    /\ mpsse.fault = "read_error"
    /\ mpsse.rx_len = 1
    /\ mpsse.restored = 1
    /\ mpsse.usb_closed = 1

\* the Exit1 state of the register a shift state belongs to
Exit1Of(s) == IF s = STATE_SHIFT_IR THEN STATE_EXIT1_IR ELSE STATE_EXIT1_DR

\* C14: for every N >= 1 a shift of N bits with must_end from Shift-DR ends
\* with the mirror in Exit1-DR (Exit1-IR from Shift-IR), TMS is high on the
\* N-th bit only, and jtag_state_ack is called once; without must_end it is
\* not called.
C14_MustEndShift ==
    (pc = "shifted" /\ shift_log.data_bits >= 1
                    /\ shift_log.from \in {STATE_SHIFT_DR, STATE_SHIFT_IR}) =>
        IF shift_log.must_end
        THEN /\ current_state = Exit1Of(shift_log.from)
             /\ shift_log.tms_ones = {shift_log.data_bits}
             /\ shift_log.acks = <<1>>
             /\ ~shift_log.overflow
        ELSE shift_log.acks = <<>>

\* C15: N bits shifted without must_end through a loopback come back as the
\* same N-bit pattern in the output buffer, and the mirror does not move.
C15_LoopbackRoundTrip ==
    (pc = "shifted" /\ shift_log.data_bits >= 1 /\ ~shift_log.must_end) =>
        /\ BitsOf(shift_log.out, shift_log.data_bits)
             = BitsOf(shift_log.input, shift_log.data_bits)
        /\ current_state = shift_log.from

SpiFns == {"xfer_spi", "send_spi", "flash_reset"}

\* calls of enter_spi_background_mode's 16-bit shift still to be made
PendingUnlocks ==
    Cardinality({i \in 1..Len(todo) :
                   todo[i].fn = "enter_spi_background_mode" /\ todo[i].arg = 16
                   /\ todo[i].op = "shift"})

\* C18: a run that transfers SPI bytes executes enter_spi_background_mode
\* once and before the first of them; the routine shifts 0x3A through the
\* 8-bit IR, then 0xFE 0x68 through 16 bits of DR, and leaves the TAP in
\* Run-Test/Idle.
C18_BackgroundModeOnceFirst ==
    /\ hw_ir.unlocks + PendingUnlocks <= 1
    /\ (todo # <<>> /\ Head(todo).fn \in SpiFns) =>
          (hw_ir.unlocks = 1 /\ hw_ir.spi /\ PendingUnlocks = 0)
    /\ (spi_last.op # -1 \/ spi_cs # NoCs) => hw_ir.unlocks = 1
    /\ (pc = "exit" /\ exit_status = 0 /\ ~cfg.prog_sram) => hw_ir.unlocks = 1
    /\ (last_call.fn = "enter_spi_background_mode" /\ last_call.op = "shift") =>
          \/ /\ last_call.arg = 8
             /\ last_call.data = <<58>>
             /\ shift_log.from = STATE_SHIFT_IR
             /\ hw_ir.shift = 58
          \/ /\ last_call.arg = 16
             /\ last_call.data = <<254, 104>>
             /\ shift_log.from = STATE_SHIFT_DR
             /\ hw_ir.latched = 58
             /\ hw_ir.spi
    /\ (last_call.fn = "enter_spi_background_mode" /\ ~go_active
          /\ (todo = <<>> \/ Head(todo).fn # "enter_spi_background_mode")) =>
          /\ last_call.op = "go"
          /\ last_call.arg = STATE_RUN_TEST_IDLE
          /\ current_state = STATE_RUN_TEST_IDLE
          /\ hw_state = STATE_RUN_TEST_IDLE

\* test mode: the routine has just returned, the flash has seen nothing yet
C18_Witness ==
    /\ cfg.test_mode
    /\ last_call.fn = "enter_spi_background_mode"
    /\ last_call.op = "go"
    /\ current_state = STATE_RUN_TEST_IDLE
    /\ hw_ir.unlocks = 1
    /\ hw_ir.spi
    /\ spi_last.op = -1
    /\ todo # <<>>
    /\ Head(todo).fn = "flash_reset"

\* the blocks a read of n bytes pulls
ReadPulls(n) == (n + read_blocksize - 1) \div read_blocksize

UnknownDevice ==
    /\ FirstMatch(ecp_devices, cfg.idcode, 1) = 0
    /\ FirstMatch(nx_devices, cfg.idcode, 1) = 0

\* C21: with an IDCODE in neither table the run goes on with device type
\* none: it ends with status 0 (3 on a verify mismatch), having entered SPI
\* background mode and issued the erase, program and read commands that the
\* options ask for; 0x41111043 is LFE5U-25, an ECP5.
C21_UnknownDeviceGoesOn ==
    /\ UnknownDevice =>
          /\ device_type = "TYPE_NONE"
          /\ obs.name = ""
          /\ exit_status \in {-1, 0, 3}
          /\ exit_status = 3 => obs.differ
          /\ (todo # <<>> /\ Head(todo).fn \in SpiFns) => hw_ir.unlocks = 1
          /\ (pc = "exit" /\ exit_status = 0) =>
                /\ hw_ir.unlocks = 1
                /\ spi_last.op # -1
                /\ (cfg.file_len = 324 /\ ~cfg.check_mode) =>
                      /\ erase_log = <<[op |-> FC_BE64, addr |-> 0]>>
                      /\ prog_log = <<[addr |-> 254, n |-> 2], [addr |-> 256, n |-> 256],
                                      [addr |-> 512, n |-> 256]>>
                      /\ obs.verify_ok
                /\ cfg.erase_mode => erase_log = <<[op |-> FC_BE64, addr |-> 0]>>
                /\ cfg.read_mode => obs.out_bytes = cfg.read_size
                /\ cfg.check_mode => obs.verify_ok
    /\ (cfg = [DefaultCfg EXCEPT !.file_len = 324, !.rw_offset = 254]
          /\ pc = "exit" /\ exit_status = 0) =>
          /\ erase_log = <<[op |-> FC_BE64, addr |-> 0]>>
          /\ prog_log = <<[addr |-> 254, n |-> 2], [addr |-> 256, n |-> 256],
                          [addr |-> 512, n |-> 256]>>
    /\ (cfg.idcode = <<65, 17, 16, 67>> /\ pc \notin {"open_file", "jtag_init", "read_idcode",
                                                       "print_idcode"}) =>
          (device_type = "TYPE_ECP5" /\ obs.name = "LFE5U-25")

\* a programming run on an unknown device has erased, programmed, verified
\* and returned
C21_Witness ==
    /\ UnknownDevice
    /\ device_type = "TYPE_NONE"
    /\ pc = "exit"
    /\ exit_status = 0
    /\ Len(prog_log) = 3
    /\ Len(erase_log) = 1
    /\ obs.verify_ok

----------------------------------------------------------------------------
(* Claims about the command line *)

\* no call into jtag_tap.c has been made and none is pending
NoJtagYet ==
    /\ todo = <<>>
    /\ last_call = NoCall
    /\ go_xfers = 0
    /\ go_tms = <<>>
    /\ shift_log = <<>>

\* the option combinations the error messages of main name
BadCombination(c) ==
    LET modes == {m \in {"read_mode", "erase_mode", "check_mode", "prog_sram", "test_mode"} : c[m]}
        notprog == c.read_mode \/ c.check_mode \/ c.prog_sram \/ c.test_mode
    IN  \/ Cardinality(modes) > 1
        \/ c.bulk_erase /\ c.dont_erase
        \/ (c.disable_protect \/ c.bulk_erase \/ c.dont_erase \/ c.interleaved_verify) /\ notprog
        \/ c.rw_offset # 0 /\ (c.prog_sram \/ c.test_mode)

\* a file argument too many: more than one, or one in test mode
ExtraFile(c) == c.file_args > 1 \/ (c.file_args = 1 /\ c.test_mode)

\* the named file of a mode that reads or writes one cannot be opened
CannotOpen(c) == c.file_args = 1 /\ ~c.test_mode /\ ~c.erase_mode /\ ~c.can_open

\* the run ended with status 1 without a JTAG call, or is still before
\* jtag_init on its way there
RejectedBeforeJtag ==
    /\ NoJtagYet
    /\ pc \in {"options", "filename", "open_file", "exit"}
    /\ pc = "exit" => exit_status = 1
    /\ pc = "open_file" => fopen_fails(cfg)

\* C22 as stated: a bad option combination, a file argument missing in a mode
\* that reads or writes a file, an extra file argument and a file that cannot
\* be opened all end with exit status 1 before any JTAG operation
C22_InvalidCommandLineExits1 ==
    (\/ BadCombination(cfg)
     \/ cfg.file_args = 0 /\ ~cfg.test_mode /\ ~cfg.erase_mode
     \/ ExtraFile(cfg)
     \/ CannotOpen(cfg)) => RejectedBeforeJtag

\* C22 amended: as above, the file argument counting as missing only when
\* neither -b nor -p is given (with either, main programs from /dev/null)
C22_InvalidExits1UnlessDevNull ==
    (\/ BadCombination(cfg)
     \/ /\ cfg.file_args = 0 /\ ~cfg.test_mode /\ ~cfg.erase_mode
        /\ ~cfg.bulk_erase /\ ~cfg.disable_protect
     \/ ExtraFile(cfg)
     \/ CannotOpen(cfg)) => RejectedBeforeJtag

\* a read whose output file cannot be created has exited with status 1
C22_Witness ==
    /\ cfg.read_mode
    /\ ~BadCombination(cfg)
    /\ CannotOpen(cfg)
    /\ pc = "exit"
    /\ exit_status = 1
    /\ NoJtagYet

\* -b without a file argument is through jtag_init
C22_DevNullWitness ==
    /\ cfg.bulk_erase
    /\ cfg.file_args = 0
    /\ pc = "read_idcode"
    /\ todo = <<>>
    /\ go_xfers = 1

----------------------------------------------------------------------------
(* Claims about the order of the flash operations *)

\* C23: with -l, at most one programmed page awaits its read-back comparison:
\* the comparison covering a page comes before the program command of the
\* next page (obs.compared is the number of pages programmed when the last
\* memcmp of the interleaved verify ran)
C23_PageComparedBeforeNextProgram ==
    (cfg.interleaved_verify /\ ~cfg.disable_verify) =>
        Len(prog_log) <= obs.compared + 1

\* the default flash mode: erase, program, then verify in one pass
DefaultFlashMode(c) ==
    /\ ~c.test_mode /\ ~c.prog_sram /\ ~c.read_mode /\ ~c.check_mode /\ ~c.erase_mode
    /\ ~c.disable_verify /\ ~c.interleaved_verify

\* the instructions the device latches, in order
IrSteps ==
    {<<READ_ID, LSC_READ_STATUS>>, <<LSC_READ_STATUS, ISC_ENABLE>>, <<ISC_ENABLE, ISC_ERASE>>,
     <<ISC_ERASE, ISC_DISABLE>>, <<ISC_DISABLE, BACKGROUND_SPI>>}

\* what the flash sees of flash_reset: 0xFF bytes, and shifts too short to
\* hold an opcode
ResetOps == {-1, 255}

\* the flash is being read, or was read last
ReadStarted ==
    \/ spi_cs.head # <<>> /\ spi_cs.head[1] = FC_RD
    \/ spi_last.op = FC_RD

\* one step of the run, as the device and the flash see it
FlashModeOrder ==
    /\ hw_ir'.latched # hw_ir.latched =>
          \/ <<hw_ir.latched, hw_ir'.latched>> \in IrSteps
          \/ /\ <<hw_ir.latched, hw_ir'.latched>> = <<BACKGROUND_SPI, LSC_REFRESH>>
             /\ obs.verify_ok
    \* the status instruction follows the 32 IDCODE bits
    /\ (hw_ir'.shift = LSC_READ_STATUS /\ hw_ir.shift # LSC_READ_STATUS) =>
          /\ hw_ir.latched = READ_ID
          /\ shift_log.hw_from = STATE_SHIFT_DR /\ shift_log.data_bits = 32
    \* the first flash command follows the entry into background mode
    /\ spi_cs'.bits > 0 => (hw_ir.latched = BACKGROUND_SPI /\ hw_ir.unlocks = 1)
    /\ spi_last' # spi_last =>
          /\ spi_last'.op \in ResetOps => spi_last.op \in ResetOps
          /\ spi_last'.op = FC_JEDECID => (spi_last.op = 255 /\ spi_last.bytes = 1)
          /\ spi_last'.op \notin (ResetOps \cup {FC_JEDECID}) => spi_last.op \notin ResetOps
          /\ spi_last.op # FC_RD
    /\ erase_log' # erase_log => (prog_log = <<>> /\ ~ReadStarted)
    /\ prog_log' # prog_log => ~ReadStarted
    /\ ReadStarted => ReadStarted'

\* C24: in the default flash mode the device sees the IDCODE read, the status
\* read, ISC_ENABLE, ISC_ERASE, ISC_DISABLE and the background-mode entry in
\* that order, and the flash then the reset, the JEDEC-ID read, the erases,
\* the page programs and the verify read: no erase after the first page
\* program, no erase or program once the verify read has started
C24_DefaultFlashModeOrder ==
    [][DefaultFlashMode(cfg) => FlashModeOrder]_vars

\* a default run that erased a block, programmed two pages and verified
C24_Witness ==
    /\ DefaultFlashMode(cfg)
    /\ ~cfg.dont_erase /\ ~cfg.bulk_erase
    /\ Len(erase_log) = 1
    /\ Len(prog_log) >= 2
    /\ ReadStarted
    /\ obs.verify_ok
    /\ pc = "exit"
    /\ exit_status = 0

----------------------------------------------------------------------------
(* Claims about the routing table *)

\* the states at most k edges of tms_transitions away from s
RECURSIVE Within(_, _)
Within(s, k) ==
    IF k = 0 THEN {s}
    ELSE LET w == Within(s, k - 1)
         IN  w \cup {ack_state(x, 1) : x \in w} \cup {ack_state(x, 0) : x \in w}

\* the length of a shortest path from s to t in the graph of tms_transitions
Dist(s, t) == CHOOSE k \in 0..16 : t \in Within(s, k) /\ (k = 0 \/ t \notin Within(s, k - 1))

\* C25: on a walk to a target t other than Test-Logic-Reset, from every state
\* s other than t, bit t of tms_map[s] leads to a successor one step nearer
\* to t and the other TMS value does not (the shortest path is unique); a
\* returned jtag_go_to_state call has emitted exactly Dist(from, t) TMS bits
C25_TmsMapIsShortestPath ==
    /\ (HeadIs("go") /\ Head(todo).arg # STATE_TEST_LOGIC_RESET
                     /\ current_state # Head(todo).arg) =>
          LET t == Head(todo).arg
              b == next_tms(current_state, t)
          IN  /\ Dist(ack_state(current_state, b), t) = Dist(current_state, t) - 1
              /\ Dist(ack_state(current_state, 1 - b), t) # Dist(current_state, t) - 1
    /\ (GoReturned /\ go_target # STATE_TEST_LOGIC_RESET) =>
          /\ Len(go_tms) = Dist(go_from, go_target)
          /\ go_xfers = Dist(go_from, go_target)

\* the walk from Shift-IR to Shift-DR has returned after five TMS bits
C25_Witness ==
    /\ GoReturned
    /\ go_from = STATE_SHIFT_IR
    /\ go_target = STATE_SHIFT_DR
    /\ current_state = STATE_SHIFT_DR
    /\ Len(go_tms) = 5
    /\ Dist(STATE_SHIFT_IR, STATE_SHIFT_DR) = 5

----------------------------------------------------------------------------
(* Claims about the shifts of a run *)

\* C26: every jtag_tap_shift call of a run, in every mode, is made while the
\* mirror is in Shift-DR or Shift-IR
C26_ShiftFromShiftState ==
    HeadIs("shift") => current_state \in {STATE_SHIFT_DR, STATE_SHIFT_IR}

\* read_status_register has made its last call and the next routine has
\* not started
StatusReadDone ==
    /\ last_call.fn = "read_status_register"
    /\ ~go_active
    /\ todo = <<>> \/ Head(todo).fn # "read_status_register"

\* value (bytes, most significant first) has data[0] as its least
\* significant byte, data[1] as the next, and so on
LittleEndian(value, data) ==
    /\ Len(value) = Len(data)
    /\ \A i \in 1..Len(data) : value[Len(data) + 1 - i] = data[i]

\* C27: read_status_register shifts the 8-bit instruction LSC_READ_STATUS,
\* then exactly 32 data bits on an ECP5 and 64 on an NX, and ends with the
\* mirror in Exit1-DR in both; the status word and the IDCODE are assembled
\* from the captured bytes least significant byte first
C27_StatusReadWidths ==
    /\ (StatusReadDone /\ device_type # "TYPE_NONE") =>
          /\ hw_ir.latched = LSC_READ_STATUS
          /\ last_call.op = "shift"
          /\ shift_log.from = STATE_SHIFT_DR
          /\ shift_log.must_end
          /\ shift_log.data_bits = (IF device_type = "TYPE_ECP5" THEN 32 ELSE 64)
          /\ current_state = STATE_EXIT1_DR
          /\ hw_state = STATE_EXIT1_DR
          /\ LittleEndian(obs.status, captured(status_word(device_type)))
    /\ obs.idcode # <<>> => LittleEndian(obs.idcode, captured(cfg.idcode))

\* the status read of an NX part has returned
C27_Witness ==
    /\ StatusReadDone
    /\ device_type = "TYPE_NX"
    /\ shift_log.data_bits = 64
    /\ current_state = STATE_EXIT1_DR
    /\ Len(obs.status) = 8
    /\ obs.status[8] = captured(status_word("TYPE_NX"))[1]
    /\ obs.idcode = IDCODE_LIFCL_40

\* the status read of an ECP5 part has returned
C27_WitnessEcp5 ==
    /\ StatusReadDone
    /\ device_type = "TYPE_ECP5"
    /\ shift_log.data_bits = 32
    /\ current_state = STATE_EXIT1_DR
    /\ Len(obs.status) = 4

\* the data bits the routine shifting the instruction at the head of todo
\* goes on to shift into DR: its next two calls are the walk to Shift-DR and
\* a shift, or it shifts none
DrBitsPending ==
    IF /\ Len(todo) >= 3
       /\ todo[2].fn = todo[1].fn /\ todo[2].op = "go" /\ todo[2].arg = STATE_SHIFT_DR
       /\ todo[3].fn = todo[1].fn /\ todo[3].op = "shift"
    THEN todo[3].arg
    ELSE 0

\* one payload width per opcode: the width the flash mode uses, and for the
\* status register the width of the part
PayloadBits(op) ==
    CASE op = READ_ID -> 32
      [] op = LSC_READ_STATUS -> (IF device_type = "TYPE_ECP5" THEN 32
                                  ELSE IF device_type = "TYPE_NX" THEN 64 ELSE 0)
      [] op \in {ISC_ENABLE, ISC_ERASE, ISC_DISABLE, LSC_RESET_CRC} -> 8
      [] op \in {LSC_BITSTREAM_BURST, LSC_REFRESH} -> 0
      [] op = BACKGROUND_SPI -> 16

\* C28: every instruction is shifted as 8 IR bits with TMS high on the last,
\* and each opcode is followed by the same number of DR bits on every path
\* (test, SRAM and flash mode)
C28_FixedPayloadWidth ==
    (HeadIs("shift") /\ current_state = STATE_SHIFT_IR) =>
        /\ Head(todo).arg = 8
        /\ Head(todo).must_end
        /\ Len(Head(todo).data) = 1
        /\ DrBitsPending = PayloadBits(Head(todo).data[1])

----------------------------------------------------------------------------
(* Claims about termination *)

InFlashWait == pc \in {"flash_wait", "flash_wait_check"}

\* C29: flash_wait has no timeout and no error path. On a flash that comes to
\* read ready on three polls in a row, every flash_wait entered returns. On a
\* flash that never does, a flash_wait once entered polls again and again
\* for ever, and the run reaches neither the end of programming, nor the
\* verify pass, nor its exit
C29_FlashWaitNoTimeout ==
    /\ (InFlashWait /\ busy_left # NeverReady) ~> FlashWaitReturned
    /\ [](InFlashWait /\ busy_left = NeverReady =>
            [](/\ InFlashWait
               /\ exit_status = -1
               /\ pc # "exit"
               /\ ~obs.verify_ok))
    /\ (pc = "flash_wait" /\ busy_left = NeverReady) ~> (pc = "flash_wait_check")
    /\ (pc = "flash_wait_check" /\ busy_left = NeverReady) ~> (pc = "flash_wait")

\* a flash_wait polling on after two clear reads and a busy one
C29_Witness ==
    /\ pc = "flash_wait"
    /\ busy_left = NeverReady
    /\ wait_polls = <<0, 0, 1>>
    /\ count = 0
    /\ Len(erase_log) = 1

\* C30: the receive loop of mpsse_xfer adds up short reads: it returns only
\* with exactly receive_length bytes stored one after the other from the
\* start of the buffer, it aborts only when a read returns a negative code,
\* and a read of zero bytes is tried again
C30_ReceiveLoopAccumulates ==
    [][mpsse.pc = "read" =>
         \/ /\ mpsse'.pc = "read"
            /\ mpsse'.fault = "none"
            /\ mpsse'.rx_len < mpsse.receive_length
            /\ mpsse'.rx_len >= mpsse.rx_len
            /\ mpsse'.stored = 0..(mpsse'.rx_len - 1)
            /\ mpsse'.io = mpsse.io + 1
            /\ mpsse'.zero_reads = (IF mpsse'.rx_len = mpsse.rx_len
                                    THEN mpsse.zero_reads + 1 ELSE 0)
         \/ /\ mpsse'.pc = "idle"
            /\ mpsse'.fault = "none"
            /\ mpsse'.rx_len = mpsse.receive_length
            /\ mpsse'.rx_len > mpsse.rx_len
            /\ mpsse'.stored = 0..(mpsse.receive_length - 1)
            /\ mpsse'.xfers = mpsse.xfers + 1
         \/ /\ mpsse'.pc = "exited"
            /\ mpsse'.fault = "read_error"
            /\ mpsse'.rx_len = mpsse.rx_len
            /\ exit_status' = 2]_vars

\* one of three bytes has arrived, the next read returned nothing, and the
\* loop goes on
C30_Witness ==
    /\ mpsse.pc = "read"
    /\ mpsse.receive_length = 3
    /\ mpsse.rx_len = 1
    /\ mpsse.stored = {0}
    /\ mpsse.zero_reads = 1
    /\ mpsse.fault = "none"

----------------------------------------------------------------------------
(* Claims about the SPI phase of a run *)

\* the states the TAP may be in while the flash is talked to
SpiPhaseStates ==
    {STATE_RUN_TEST_IDLE, STATE_SELECT_DR_SCAN, STATE_CAPTURE_DR, STATE_SHIFT_DR,
     STATE_EXIT1_DR, STATE_PAUSE_DR, STATE_EXIT2_DR}

\* enter_spi_background_mode has returned and the run has not gone on to
\* LSC_REFRESH: the routine running, or the one that ran last, is one of
\* xfer_spi, send_spi and flash_reset
InSpiPhase ==
    /\ hw_ir.unlocks = 1
    /\ IF todo = <<>>
       THEN last_call.fn \in SpiFns \/ (last_call.fn = "enter_spi_background_mode" /\ ~go_active)
       ELSE Head(todo).fn \in SpiFns

----------------------------------------------------------------------------
(* Claims about the programmed and erased ranges *)

\* a run that programs the file
ProgramRun ==
    /\ ~cfg.test_mode /\ ~cfg.prog_sram /\ ~cfg.read_mode /\ ~cfg.check_mode
    /\ ~cfg.erase_mode

\* the bytes the page programs of log carry in all
RECURSIVE ProgrammedBytes(_)
ProgrammedBytes(log) ==
    IF log = <<>> THEN 0 ELSE Head(log).n + ProgrammedBytes(Tail(log))

\* C32: the page programs of a run tile the requested range: the first
\* starts at rw_offset, each next one where the one before ended, their
\* lengths add up to the file length, and none reaches rw_offset + file
\* length or beyond
C32_SegmentsTileTheRange ==
    /\ ProgramRun =>
          \A i \in 1..Len(prog_log) :
              /\ prog_log[i].addr = (IF i = 1 THEN cfg.rw_offset
                                     ELSE prog_log[i - 1].addr + prog_log[i - 1].n)
              /\ prog_log[i].addr + prog_log[i].n <= cfg.rw_offset + cfg.file_len
    /\ (ProgramRun /\ ProgramDone) => ProgrammedBytes(prog_log) = cfg.file_len

\* the bytes an erase command clears, by its opcode
ErasedBytes(op) ==
    IF op = FC_SE THEN 4 * 1024
    ELSE IF op = FC_BE32 THEN 32 * 1024
    ELSE IF op = FC_BE64 THEN 64 * 1024
    ELSE 0

\* the bytes first .. last lie in one block of the erase log
ErasedBefore(first, last) ==
    \E j \in 1..Len(erase_log) :
        /\ erase_log[j].addr <= first
        /\ last < erase_log[j].addr + ErasedBytes(erase_log[j].op)

\* C33: in a block-erase run programming a file of one byte or more, every
\* byte of every page program lies in a block the run has erased before,
\* for every offset and each of the block sizes 4, 32 and 64 KiB (a page
\* program stays within one 256-byte page, so within one block)
C33_ProgrammedBytesWereErased ==
    (ProgramRun /\ BlockEraseRun /\ cfg.file_len >= 1) =>
        \A i \in 1..Len(prog_log) :
            ErasedBefore(prog_log[i].addr, prog_log[i].addr + prog_log[i].n - 1)

\* 324 bytes at 4095 with 4 KiB blocks: two blocks erased, the page programs
\* on both sides of the block boundary made
C33_Witness ==
    /\ ProgramRun /\ BlockEraseRun
    /\ cfg.rw_offset = 4095 /\ cfg.file_len = 324 /\ cfg.erase_block_size = 4
    /\ erase_log = <<[op |-> FC_SE, addr |-> 0], [op |-> FC_SE, addr |-> 4096]>>
    /\ Len(prog_log) = 3
    /\ prog_log[1] = [addr |-> 4095, n |-> 1]
    /\ prog_log[3].addr = 4352
    /\ pc = "exit"

\* C34: every block erased in a block-erase run holds at least one byte of
\* the requested range [rw_offset, rw_offset + file_size); with a length of
\* 0 nothing is erased, whatever the offset
C34_ErasedBlocksMeetTheRange ==
    BlockEraseRun =>
        \A j \in 1..Len(erase_log) :
            /\ file_size >= 1
            /\ erase_log[j].addr < cfg.rw_offset + file_size
            /\ cfg.rw_offset < erase_log[j].addr + ErasedBytes(erase_log[j].op)

----------------------------------------------------------------------------
(* Claims about chip select and the flash commands *)

\* the opcodes the flash routines send as the first byte of a command
CommandOpcodes ==
    {FC_JEDECID, FC_WE, FC_CE, FC_SE, FC_BE32, FC_BE64, FC_PP, FC_RD, FC_RSR1,
     FC_RSR2, FC_WSR1}

\* the next primitive call is the shift xfer_spi or send_spi makes for a
\* buffer that starts with a command opcode
CommandShiftPending ==
    /\ HeadIs("shift")
    /\ Head(todo).fn \in {"xfer_spi", "send_spi"}
    /\ Head(todo).data # <<>>
    /\ bit_reverse(Head(todo).data[1]) \in CommandOpcodes

\* C35: every command opcode is the first byte of a chip-select assertion:
\* when xfer_spi or send_spi is about to shift a command buffer, the TAP is
\* in Shift-DR and no bit has been shifted since it entered that state (the
\* status polls after an interleaved-verify read included)
C35_CommandBeginsFreshChipSelect ==
    (CommandShiftPending /\ hw_ir.spi) =>
        /\ hw_state = STATE_SHIFT_DR
        /\ spi_cs.bits = 0

\* the next primitive call is one of flash_reset's three shifts
ResetShiftPending == HeadIs("shift") /\ Head(todo).fn = "flash_reset"

\* one of flash_reset's three shifts has just been made
ResetShiftDone ==
    last_call.op = "shift" /\ last_call.fn = "flash_reset" /\ ~go_active

\* C36: each of flash_reset's three DR shifts (64, 2 and 8 bits) presents
\* TDI = 1 on every bit, whatever TDO returned during the shifts before, and
\* ends with the TAP in Exit1-DR
C36_FlashResetDrivesAllOnes ==
    /\ ResetShiftPending =>
          /\ Head(todo).arg \in {64, 2, 8}
          /\ \A k \in 0..(Head(todo).arg - 1) : TdiBit(Head(todo).data, k) = 1
    /\ ResetShiftDone =>
          /\ current_state = STATE_EXIT1_DR
          /\ hw_state = STATE_EXIT1_DR

----------------------------------------------------------------------------
(* Claims about jtag_init *)

\* jtag_init has returned and no later call has been made
JtagInitDone == last_call.fn = "jtag_init" /\ ~go_active

\* C37: when jtag_init has returned, whatever state the hardware controller
\* started in, the hardware controller and the mirror are both in
\* Test-Logic-Reset and the call has clocked exactly five TMS = 1 bits, in
\* one command
C37_JtagInitResetsBoth ==
    JtagInitDone =>
        /\ current_state = STATE_TEST_LOGIC_RESET
        /\ hw_state = STATE_TEST_LOGIC_RESET
        /\ go_tms = <<1, 1, 1, 1, 1>>
        /\ go_acks = <<1, 1, 1, 1, 1>>
        /\ go_xfers = 1

C37_Witness ==
    /\ JtagInitDone
    /\ pc = "read_idcode"
    /\ todo = <<>>
    /\ hw_state = STATE_TEST_LOGIC_RESET
    /\ go_tms = <<1, 1, 1, 1, 1>>

----------------------------------------------------------------------------
(* ecpprog.c: one fread block of the programming loop with its buffers:
   buffer_file, buffer_tx and flash_prog's command array.  flash_write_enable
   and flash_wait exchange arrays of their own and leave the TAP in Exit1-DR,
   where each segment starts *)

\* file lengths (one, a few, more than a page) and offsets (page aligned,
\* 42 bytes and 2 bytes before a page boundary)
PageCfgs ==
    { [DefaultCfg EXCEPT !.file_len = n, !.rw_offset = o, !.interleaved_verify = TRUE] :
        n \in {1, 3, 300}, o \in {0, 214, 254} }

\* buffer_file after fread stored n bytes: the file's bytes, then what the
\* array held before, up to one page past them
FileBuffer(n, stale) ==
    [i \in 1..(n + 256) |-> IF i <= n THEN (1 + 37 * i) % 256 ELSE stale]

\* flash_prog handed buffer_file + block_offset instead of buffer_tx: the
\* exchange lands in the file buffer
flash_prog_exchanged_in_file(b, out) ==
    [b EXCEPT !.file = [i \in 1..Len(b.file) |->
                           IF i > block_offset /\ i <= block_offset + Len(out)
                           THEN out[i - block_offset] ELSE b.file[i]]]

\* flash_prog(write_addr, buffer_tx, written): xfer_spi exchanges in place,
\* so what TDO returned lands in buffer_tx
flash_prog_exchanged(b, out) == [b EXCEPT !.data = out]

\* memcpy(buffer_tx, buffer_file + block_offset, written), and the command
\* array flash_prog fills
main_prog_copy_segment ==
    /\ pc = "page"
    /\ todo = <<>>
    /\ block_offset < rc
    /\ buf' = [buf EXCEPT !.data = SubSeq(buf.file, block_offset + 1, block_offset + written),
                          !.len = written,
                          !.command = <<FC_PP>> \o AddrBytes(write_addr)]
    /\ pc' = "prog_command"
    /\ UNCHANGED <<cfg, mpsse, todo, tapvars, devvars, mainvars>>

\* send_spi(command, 4): first reversal loop and the calls it makes
flash_prog_send_command ==
    /\ pc = "prog_command"
    /\ todo' = send_spi(buf.command, 4)
    /\ buf' = [buf EXCEPT !.command = Reversed(buf.command), !.entry = current_state]
    /\ shift_log' = BeforeShift(Reversed(buf.command))
    /\ go_tms' = <<>>
    /\ go_xfers' = 0
    /\ pc' = "spi_shift"
    /\ UNCHANGED <<cfg, mpsse, current_state, hw_state, tms_line, go_active, go_from,
                   go_target, go_acks, last_call, devvars, mainvars>>

\* send_spi's second reversal loop over the command array
flash_prog_command_sent ==
    /\ pc = "spi_return"
    /\ last_call.fn = "send_spi"
    /\ buf' = [buf EXCEPT !.command = Reversed(shift_log.out)]
    /\ pc' = "prog_data"
    /\ UNCHANGED <<cfg, mpsse, todo, tapvars, devvars, mainvars>>

\* xfer_spi(data, n): first reversal loop and the calls it makes
flash_prog_xfer_data ==
    /\ pc = "prog_data"
    /\ todo' = xfer_spi(buf.data, buf.len)
    /\ buf' = [buf EXCEPT !.data = Reversed(buf.data), !.entry = current_state]
    /\ shift_log' = BeforeShift(Reversed(buf.data))
    /\ go_tms' = <<>>
    /\ go_xfers' = 0
    /\ pc' = "spi_shift"
    /\ UNCHANGED <<cfg, mpsse, current_state, hw_state, tms_line, go_active, go_from,
                   go_target, go_acks, last_call, devvars, mainvars>>

\* xfer_spi's second reversal loop, then block_offset += written
flash_prog_data_sent ==
    /\ pc = "spi_return"
    /\ last_call.fn = "xfer_spi"
    /\ buf' = [flash_prog_exchanged(buf, Reversed(shift_log.out))
                  EXCEPT !.done = Append(@, "xfer_spi")]
    /\ block_offset' = block_offset + written
    /\ pc' = IF block_offset + written < rc THEN "page" ELSE "page_compare"
    /\ UNCHANGED <<cfg, mpsse, todo, tapvars, devvars, device_type, file_size, f_pos, rc,
                   addr, erase_addr, count, wait_ret, wait_polls, data1, busy_left,
                   exit_status, obs>>

\* fread has stored rc = file_len bytes in buffer_file; flash_write_enable
\* has left the TAP in Exit1-DR
InitPage ==
    /\ cfg \in PageCfgs
    /\ pc = "page"
    /\ todo = <<>>
    /\ \E stale \in {0, 165}, miso \in {0, 255} :
         buf = [orig |-> FileBuffer(cfg.file_len, stale),
                file |-> FileBuffer(cfg.file_len, stale),
                data |-> <<>>, len |-> 0, done |-> <<>>, entry |-> STATE_EXIT1_DR,
                command |-> <<>>, miso |-> miso]
    /\ shift_log = BeforeShift(<<>>)
    /\ current_state = STATE_EXIT1_DR
    /\ hw_state = current_state
    /\ tms_line = 0
    /\ go_active = FALSE
    /\ go_from = current_state
    /\ go_target = current_state
    /\ go_acks = <<>>
    /\ go_tms = <<>>
    /\ go_xfers = 0
    /\ last_call = NoCall
    /\ DeviceIdle
    /\ device_type = "TYPE_ECP5"
    /\ file_size = cfg.file_len
    /\ f_pos = cfg.file_len
    /\ rc = cfg.file_len
    /\ addr = 0
    /\ block_offset = 0
    /\ erase_addr = 0
    /\ count = 0
    /\ wait_ret = ""
    /\ wait_polls = <<>>
    /\ data1 = 0
    /\ exit_status = -1
    /\ obs = NoObs
    /\ busy_left = 0
    /\ mpsse = MpsseUp

NextPage ==
    \/ main_prog_copy_segment
    \/ flash_prog_send_command
    \/ flash_prog_command_sent
    \/ flash_prog_xfer_data
    \/ flash_prog_data_sent
    \/ xfer_spi_enter
    \/ jtag_go_to_state_step
    \/ jtag_go_to_state_return
    \/ jtag_tap_shift_queued

SpecPage == InitPage /\ [][NextPage]_vars

\* every segment of the block has been programmed
PageBlockDone == pc = "page_compare"

\* C38: while a block is programmed, buffer_file holds what fread stored in
\* it: the page-program exchange lands in buffer_tx, so the memcmp of the
\* interleaved verify compares the bytes read from the file
C38_FileBufferUnmodified ==
    /\ buf.file = buf.orig
    /\ Len(buf.data) <= 256

\* a 42-byte segment has been exchanged: buffer_tx holds what the flash
\* returned, buffer_file the file
C38_Witness ==
    /\ PageBlockDone
    /\ cfg.file_len = 3
    /\ buf.done = <<"xfer_spi">>
    /\ buf.len = 42
    /\ buf.data = [i \in 1..42 |-> buf.miso]
    /\ buf.data # SubSeq(buf.orig, 1, 42)
    /\ buf.file = buf.orig

----------------------------------------------------------------------------
(* Claims about the two implementations of jtag_tap_shift *)

\* shift lengths in bits the flash routines issue: flash_reset's 2 and 8,
\* a command with one data byte, a command with an address, flash_reset's
\* 64, a full page of 256 bytes (a read block of 8192 bytes is longer still)
IssuedShiftLens == {2, 8, 16, 32, 64, 2048}

\* the bit-queued implementation has returned from a shift of an issued length
QueuedShiftDone ==
    /\ pc = "shifted"
    /\ shift_log.impl = "jtag_tap.c"
    /\ shift_log.data_bits \in IssuedShiftLens

\* C39: for every shift length the program issues the bit-queued
\* jtag_tap_shift queues at most 1024 command bytes, its receive counter
\* equals data_bits, and it asks the transport for data_bits response bytes
C39_QueuedShiftFitsItsBuffer ==
    QueuedShiftDone =>
        /\ shift_log.tx_len <= DataSize
        /\ ~shift_log.overflow
        /\ shift_log.rx_cnt = shift_log.data_bits

\* either implementation has returned from a shift of at least one bit
EitherShiftDone == pc = "shifted" /\ shift_log.data_bits >= 1

\* C40: for every data_bits >= 1 and either must_end the two implementations
\* agree over a loopback: whichever ran, the output buffer holds what the
\* byte-batched one writes for that input, TMS was high on the last bit only
\* and only if must_end, and the mirror is where one acknowledgement (or
\* none) takes it from the state it started in
C40_ImplementationsAgree ==
    EitherShiftDone =>
        /\ shift_log.out = batched_out(shift_log.input, shift_log.data_bits)
        /\ shift_log.tms_ones = (IF shift_log.must_end THEN {shift_log.data_bits} ELSE {})
        /\ current_state = ack_all(shift_log.from,
                                   shift_acks(shift_log.data_bits, shift_log.must_end))
        /\ ~shift_log.overflow

====
